---- MODULE Spec2Model ----
(***************************************************************************)
(* Model of the PUIUX Agent Teams orchestrator (orchestrator.js): the gate *)
(* policy engine, the budget check, and the stage pipeline driver with its *)
(* run manifests.  Stage tokens are sequences of one-character strings so  *)
(* that the prefix classification of stageFamily is computed, not assumed. *)
(***************************************************************************)
EXTENDS Integers, Sequences, FiniteSets, TLC

VARIABLES
    arg,        \* inputs of the function under evaluation (function-level specifications)
    ret,        \* its returned value, NotCalled before the call
    gatesFile,  \* clients/<slug>/gates.json: NoFile or a gate map
    registry,   \* the client's entry in clients.json (its gates, if any)
    outputs,    \* outputs/<slug>/: stage directory -> [run, files]
    inv,        \* the invocations of `node orchestrator.js --client --stage`
    adminOps,   \* number of admin changes made to the gate record so far
    exec        \* one task executor, one call of retry, or the metered-call manager,
                \* followed step by step

vars == <<arg, ret, gatesFile, registry, outputs, inv, adminOps, exec>>

Null == [null |-> TRUE]
NoFile == [nofile |-> TRUE]
NotCalled == [notcalled |-> TRUE]

-----------------------------------------------------------------------------
(* Stage tokens *)

PS0 == <<"P", "S", "0">>
PS1 == <<"P", "S", "1">>
PS2 == <<"P", "S", "2">>
PS3 == <<"P", "S", "3">>
PS4 == <<"P", "S", "4">>
PS5 == <<"P", "S", "5">>
PS6 == <<"P", "S", "6">>
S0 == <<"S", "0">>
S1 == <<"S", "1">>
S2 == <<"S", "2">>
S3 == <<"S", "3">>
S4 == <<"S", "4">>
S5 == <<"S", "5">>
STAGING == <<"S", "T", "A", "G", "I", "N", "G">>
DEPLOY == <<"D", "E", "P", "L", "O", "Y">>
PROD == <<"P", "R", "O", "D">>
PRODUCTION == <<"P", "R", "O", "D", "U", "C", "T", "I", "O", "N">>
RELEASE == <<"R", "E", "L", "E", "A", "S", "E">>
UNKNOWN == <<"U", "N", "K", "N", "O", "W", "N">>
QA == <<"Q", "A">>
ps5 == <<"p", "s", "5">>
s2 == <<"s", "2">>
deploy == <<"d", "e", "p", "l", "o", "y">>
S2padded == <<" ", "S", "2", " ">>
EmptyStage == <<>>

PresalesTokens == {PS0, PS1, PS2, PS3, PS4, PS5}
DeliveryTokens == {S0, S1, S2, S3, S4, S5}
ProductionTokens == {DEPLOY, PROD, PRODUCTION, RELEASE}

\* the stage tokens the gate engine is evaluated on
GateStageTokens ==
    PresalesTokens \cup DeliveryTokens \cup ProductionTokens
    \cup {PS6, STAGING, UNKNOWN, QA, ps5, s2, deploy, S2padded, EmptyStage}

-----------------------------------------------------------------------------
(* Gate policy *)

GateKeys == {"payment_verified", "dns_verified", "contract_signed", "ssl_verified"}

\* a gate record is a flat map of named flags; a flag may be absent
GateStates == UNION {[D -> BOOLEAN] : D \in SUBSET GateKeys}

GATE_POLICY ==
    [presales |-> [allow |-> {PS0, PS1, PS2, PS3, PS4}, require_contract |-> {PS5}],
     delivery |-> [require_payment |-> {S0, S1, S2, S3, S4, S5}],
     production |-> [require_all |-> {DEPLOY, PROD, RELEASE, PRODUCTION}]]

BlockedDefaults ==
    [payment_verified |-> FALSE, dns_verified |-> FALSE,
     contract_signed |-> FALSE, ssl_verified |-> FALSE]

toUpperCase(ch) ==
    CASE ch = "p" -> "P" [] ch = "s" -> "S" [] ch = "d" -> "D" [] ch = "e" -> "E"
      [] ch = "l" -> "L" [] ch = "o" -> "O" [] ch = "y" -> "Y" [] OTHER -> ch

RECURSIVE trimStart(_)
trimStart(s) == IF s # <<>> /\ Head(s) = " " THEN trimStart(Tail(s)) ELSE s

RECURSIVE trimEnd(_)
trimEnd(s) ==
    IF s # <<>> /\ s[Len(s)] = " " THEN trimEnd(SubSeq(s, 1, Len(s) - 1)) ELSE s

trim(s) == trimEnd(trimStart(s))

startsWith(s, prefix) ==
    Len(s) >= Len(prefix) /\ SubSeq(s, 1, Len(prefix)) = prefix

\* String(stage || '').toUpperCase().trim()
normalizeStage(stage) == trim([k \in 1..Len(stage) |-> toUpperCase(stage[k])])

\* faulty variant: a token of no family is treated as a delivery stage
stageFamily_DefaultDelivery(stage) ==
    LET stageNorm == normalizeStage(stage) IN
    IF startsWith(stageNorm, <<"P", "S">>) THEN "presales"
    ELSE IF startsWith(stageNorm, <<"S">>) THEN "delivery"
    ELSE IF stageNorm \in {DEPLOY, PROD, PRODUCTION, RELEASE} THEN "production"
    ELSE "delivery"

stageFamily(stage) ==
    LET stageNorm == normalizeStage(stage) IN
    IF startsWith(stageNorm, <<"P", "S">>) THEN "presales"
    ELSE IF startsWith(stageNorm, <<"S">>) THEN "delivery"
    ELSE IF stageNorm \in {DEPLOY, PROD, PRODUCTION, RELEASE} THEN "production"
    ELSE "unknown"

\* !gates?.[k] is false exactly when the flag is present and true
Truthy(gates, k) == k \in DOMAIN gates /\ gates[k] = TRUE

getCommercialMessage(missingGates) ==
    [k \in 1..Len(missingGates) |-> <<"commercial", missingGates[k]>>]

\* faulty variant: a denial lists every required flag, met or not
requireGates_AllRequired(gates, requiredKeys) ==
    LET missing == IF \E k \in 1..Len(requiredKeys) : ~Truthy(gates, requiredKeys[k])
                   THEN requiredKeys ELSE <<>> IN
    IF Len(missing) > 0
    THEN [passed |-> FALSE,
          reason |-> <<"gates required">> \o missing,
          missing |-> missing,
          commercial_message |-> getCommercialMessage(missing)]
    ELSE [passed |-> TRUE]

requireGates(gates, requiredKeys) ==
    LET missing == SelectSeq(requiredKeys, LAMBDA k : ~Truthy(gates, k)) IN
    IF Len(missing) > 0
    THEN [passed |-> FALSE,
          reason |-> <<"gates required">> \o missing,
          missing |-> missing,
          commercial_message |-> getCommercialMessage(missing)]
    ELSE [passed |-> TRUE]

\* faulty variant: a missing gate record opens every gate
loadGates_FailOpen(file, reg) ==
    IF file # NoFile THEN file
    ELSE IF reg.kind = "client" /\ reg.gates # Null THEN reg.gates
    ELSE [k \in GateKeys |-> TRUE]

\* the client gates.json first, then the registry entry, then the blocked defaults
loadGates(file, reg) ==
    IF file # NoFile THEN file
    ELSE IF reg.kind = "client" /\ reg.gates # Null THEN reg.gates
    ELSE BlockedDefaults

\* faulty variant: the terminal presales stage is treated like PS0-PS4
presalesDecision_NoContract(stageNorm, gates) ==
    IF stageNorm \in GATE_POLICY.presales.allow \cup GATE_POLICY.presales.require_contract
    THEN [passed |-> TRUE, reason |-> <<"Presales stage - always allowed">>]
    ELSE [passed |-> TRUE]

presalesDecision(stageNorm, gates) ==
    IF stageNorm \in GATE_POLICY.presales.allow
    THEN [passed |-> TRUE, reason |-> <<"Presales stage - always allowed">>]
    ELSE IF stageNorm \in GATE_POLICY.presales.require_contract
    THEN requireGates(gates, <<"contract_signed">>)
    ELSE [passed |-> TRUE]

\* faulty variant: delivery asks for the contract instead of the payment
deliveryDecision_Contract(gates) == requireGates(gates, <<"contract_signed">>)

deliveryDecision(gates) == requireGates(gates, <<"payment_verified">>)

\* faulty variant: production forgets the SSL gate
productionDecision_NoSsl(gates) ==
    requireGates(gates, <<"payment_verified", "dns_verified">>)

productionDecision(gates) ==
    requireGates(gates, <<"payment_verified", "dns_verified", "ssl_verified">>)

checkGates(file, reg, fromStage, toStage) ==
    LET stage == IF toStage # <<>> THEN toStage ELSE fromStage
        stageNorm == normalizeStage(stage)
        family == stageFamily(stageNorm)
        gates == loadGates(file, reg)
        decision ==
            IF family = "presales" THEN presalesDecision(stageNorm, gates)
            ELSE IF family = "delivery" THEN deliveryDecision(gates)
            ELSE IF family = "production" THEN productionDecision(gates)
            ELSE [passed |-> TRUE]
    IN decision @@ [stage |-> stageNorm, family |-> family, gates_state |-> gates]

-----------------------------------------------------------------------------
(* Function-level specification of the gate engine: any stage token, any   *)
(* gate record (or none), any registry entry; one call of checkGates.      *)

RegistryEntries ==
    {[kind |-> "no_registry"], [kind |-> "no_client"],
     [kind |-> "client", gates |-> Null]}
    \cup {[kind |-> "client", gates |-> g] :
            g \in {[k \in GateKeys |-> TRUE], [k \in GateKeys |-> FALSE],
                   [k \in {} |-> TRUE]}}

DriverIdle ==
    /\ gatesFile = NoFile
    /\ registry = [kind |-> "no_registry"]
    /\ outputs = <<>>
    /\ inv = <<>>
    /\ adminOps = 0

driverVars == <<gatesFile, registry, outputs, inv, adminOps>>

InitGate ==
    /\ arg \in [fn : {"checkGates"},
                file : {NoFile} \cup GateStates,
                reg : RegistryEntries,
                fromStage : {S1},
                toStage : GateStageTokens]
    /\ ret = NotCalled
    /\ exec = NotCalled
    /\ DriverIdle

EvalCheckGates ==
    /\ arg.fn = "checkGates"
    /\ ret = NotCalled
    /\ ret' = checkGates(arg.file, arg.reg, arg.fromStage, arg.toStage)
    /\ UNCHANGED <<arg, exec, driverVars>>

NextGate == EvalCheckGates

SpecGate == InitGate /\ [][NextGate]_vars

-----------------------------------------------------------------------------
(* Budget check *)

\* CONFIG.budgets, in USD
per_run == 2
per_stage == 10
per_client == 50

\* the largest cost a single persisted run manifest carries in the model
MaxRunCost == 26

\* a run.json as the budget check reads it: llm_usage is null or carries
\* total_cost_usd
PastManifest(stage, usage) ==
    [run_id |-> <<stage, "past">>, stage |-> stage, status |-> "success",
     artifacts |-> {}, agents |-> <<>>, llm_usage |-> usage]

\* runData.llm_usage && runData.llm_usage.total_cost_usd
runCost(runData) ==
    IF /\ runData # NoFile
       /\ "llm_usage" \in DOMAIN runData
       /\ runData.llm_usage # Null
       /\ runData.llm_usage.total_cost_usd # 0
    THEN runData.llm_usage.total_cost_usd
    ELSE 0

RECURSIVE sumRuns(_, _)
sumRuns(tree, dirs) ==
    IF dirs = {} THEN 0
    ELSE LET d == CHOOSE x \in dirs : TRUE
         IN runCost(tree[d].run) + sumRuns(tree, dirs \ {d})

\* the scan of outputs/<slug>/*/run.json
totalSpent(tree) == sumRuns(tree, DOMAIN tree)

stageSpent(tree, stage) == sumRuns(tree, {d \in DOMAIN tree : d = stage})

\* faulty variant: the ceilings are compared with > instead of >=
checkLimits_Strict(total, ofStage) ==
    IF total > per_client
    THEN [withinBudget |-> FALSE, spent |-> total, limit |-> per_client,
          reason |-> <<"client limit", per_client, total>>]
    ELSE IF ofStage > per_stage
    THEN [withinBudget |-> FALSE, spent |-> ofStage, limit |-> per_stage,
          reason |-> <<"stage limit", per_stage, ofStage>>]
    ELSE [withinBudget |-> TRUE, spent |-> total, remaining |-> per_client - total]

checkLimits(total, ofStage) ==
    IF total >= per_client
    THEN [withinBudget |-> FALSE, spent |-> total, limit |-> per_client,
          reason |-> <<"client limit", per_client, total>>]
    ELSE IF ofStage >= per_stage
    THEN [withinBudget |-> FALSE, spent |-> ofStage, limit |-> per_stage,
          reason |-> <<"stage limit", per_stage, ofStage>>]
    ELSE [withinBudget |-> TRUE, spent |-> total, remaining |-> per_client - total]

checkBudget(tree, stage) == checkLimits(totalSpent(tree), stageSpent(tree, stage))

-----------------------------------------------------------------------------
(* Function-level specification of the budget check: any tree of persisted *)
(* run manifests under the client's output directory, any stage.           *)

BudgetDirs == {S1, S2, S3}

\* what a stage directory holds for the scan: no run.json, a manifest with
\* llm_usage null, or a manifest with a recorded cost
Usages == {NoFile, Null} \cup {[total_cost_usd |-> c] : c \in 0..MaxRunCost}

RunFile(stage, usage) ==
    IF usage = NoFile THEN NoFile ELSE PastManifest(stage, usage)

BudgetTrees ==
    {[d \in BudgetDirs |-> [run |-> RunFile(d, u[d]), files |-> {}]] :
        u \in [BudgetDirs -> Usages]}

InitBudget ==
    /\ arg \in [fn : {"checkBudget"}, tree : BudgetTrees, stage : {S1, S2, s2, PS0}]
    /\ ret = NotCalled
    /\ exec = NotCalled
    /\ DriverIdle

EvalCheckBudget ==
    /\ arg.fn = "checkBudget"
    /\ ret = NotCalled
    /\ ret' = checkBudget(arg.tree, arg.stage)
    /\ UNCHANGED <<arg, exec, driverVars>>

NextBudget == EvalCheckBudget

SpecBudget == InitBudget /\ [][NextBudget]_vars

-----------------------------------------------------------------------------
(* Stage pipeline driver *)

\* concurrent invocations of the command for the one client
NumInv == 2
\* admin changes of the client's gate record during the run
MaxAdminOps == 1
\* the largest cost one task executor reports for its metered call; the MVP
\* body of executeAgentLogic reports null, which is the value 0
MaxAgentCost == 1

Invs == 1..NumInv

\* the stage tokens the command is invoked with
DriverStages == {PS5, S2, S3, DEPLOY}

stageMap ==
    (PS0 :> <<"presales-agent">>) @@ (PS1 :> <<"presales-agent">>)
    @@ (PS2 :> <<"presales-agent">>) @@ (PS3 :> <<"presales-agent">>)
    @@ (PS4 :> <<"presales-agent">>) @@ (PS5 :> <<"presales-agent">>)
    @@ (S0 :> <<"setup-agent">>) @@ (S1 :> <<"planning-agent">>)
    @@ (S2 :> <<"designer-agent", "frontend-agent", "backend-agent">>)
    @@ (S3 :> <<"qa-agent">>)
    @@ (S4 :> <<"deployment-agent">>) @@ (S5 :> <<"deployment-agent">>)

\* stageMap[stage] || [], every mapped agent file loadable
getAgentsForStage(stage) ==
    IF stage \in DOMAIN stageMap THEN stageMap[stage] ELSE <<>>

Range(seq) == {seq[k] : k \in 1..Len(seq)}

\* writing a file into a directory listing (name -> content)
WriteFile(files, name, content) == (name :> content) @@ files

RECURSIVE WriteAll(_, _, _)
WriteAll(files, names, content) ==
    IF names = {} THEN files
    ELSE LET n == CHOOSE x \in names : TRUE
         IN WriteAll(WriteFile(files, n, content), names \ {n}, content)

\* the deliverable map the executor declares, by stage and agent (file names)
Deliverables(stage, agent, s2Present) ==
    IF stage = PS0 THEN {"discovery-questions.md"}
    ELSE IF stage = PS1 THEN {"requirements.md"}
    ELSE IF stage = PS2 THEN {"design.md", "tech-stack.md"}
    ELSE IF stage = S2 /\ agent = "designer-agent"
    THEN {"wireframes-notes.md", "design-system.md"}
    ELSE IF stage = S2 /\ agent = "frontend-agent"
    THEN {"component-structure.md", "state-management.md"}
    ELSE IF stage = S2 /\ agent = "backend-agent"
    THEN {"api-spec.md", "database-schema.md"}
    ELSE IF stage = S3 /\ s2Present
    THEN {"test-plan.md", "test-cases.json", "acceptance-criteria.json",
          "security-tests.json"}
    ELSE {}

\* the decisions the executor states, each a sequence of words; the frontend
\* names constraints.tech_preferences[0] of the brief, React when there is none
Decisions(stage, agent, s2Present) ==
    IF stage = PS0 THEN <<<<"e-commerce project">>, <<"Budget">>>>
    ELSE IF stage = PS1 THEN <<<<"requirements captured">>>>
    ELSE IF stage = PS2 THEN <<<<"Selected", "React", "Node.js">>>>
    ELSE IF stage = S2 /\ agent = "designer-agent"
    THEN <<<<"key screens">>, <<"color palette and typography">>>>
    ELSE IF stage = S2 /\ agent = "frontend-agent"
    THEN <<<<"Selected", "React", "for frontend">>, <<"component hierarchy">>>>
    ELSE IF stage = S2 /\ agent = "backend-agent"
    THEN <<<<"API endpoints">>, <<"database schema">>>>
    ELSE IF stage = S3 /\ s2Present
    THEN <<<<"test cases">>, <<"security test scenarios">>,
           <<"acceptance criteria">>, <<"UI screens">>>>
    ELSE <<>>

\* faulty variant: an absent dependency is reported as failed
executeAgentLogic_DepFailed(agent, stage, tree, cost) ==
    LET s2Present == S2 \in DOMAIN tree
                     /\ "coordinator-agent.json" \in DOMAIN tree[S2].files
        issues == IF stage = S3 /\ ~s2Present
                  THEN <<[severity |-> "critical"]>> ELSE <<>>
    IN [status |-> IF \E k \in 1..Len(issues) : issues[k].severity = "critical"
                   THEN "failed" ELSE "success",
        result |-> [summary |-> <<agent, stage>>,
                    deliverables |-> Deliverables(stage, agent, s2Present),
                    decisions |-> Decisions(stage, agent, s2Present),
                    issues |-> issues],
        cost_usd |-> cost]

\* executeAgentLogic: S3 needs outputs/<slug>/S2/coordinator-agent.json
executeAgentLogic(agent, stage, tree, cost) ==
    LET s2Present == S2 \in DOMAIN tree
                     /\ "coordinator-agent.json" \in DOMAIN tree[S2].files
        issues == IF stage = S3 /\ ~s2Present
                  THEN <<[severity |-> "critical"]>> ELSE <<>>
    IN [status |-> IF \E k \in 1..Len(issues) : issues[k].severity = "critical"
                   THEN "blocked" ELSE "success",
        result |-> [summary |-> <<agent, stage>>,
                    deliverables |-> Deliverables(stage, agent, s2Present),
                    decisions |-> Decisions(stage, agent, s2Present),
                    issues |-> issues],
        cost_usd |-> cost]

\* checkArtifacts: the declared files absent from the directory
checkArtifacts(deliverables, files) ==
    LET missing == {f \in deliverables : f \notin DOMAIN files}
    IN [valid |-> missing = {}, missing |-> missing]

\* faulty variant: the missing files are reported but a success stays success
applyArtifactCheck_KeepStatus(r, artifactCheck) ==
    IF artifactCheck.valid THEN r
    ELSE [r EXCEPT !.result.issues =
                       Append(@, [severity |-> "high",
                                  missing_artifacts |-> artifactCheck.missing])]

\* executeAgent, "Validate artifacts integrity": a failed check appends one
\* high-severity issue and turns a success into blocked
applyArtifactCheck(r, artifactCheck) ==
    IF artifactCheck.valid THEN r
    ELSE [r EXCEPT !.result.issues =
                       Append(@, [severity |-> "high",
                                  missing_artifacts |-> artifactCheck.missing]),
                   !.status = IF @ = "success" THEN "blocked" ELSE @]

\* the two files executeAgent persists for the result
persistResult(files, agent, r) ==
    WriteFile(WriteFile(files, agent \o ".json", r), agent \o ".md", "summary")

\* the value executeAgent returns
executeAgentValue(agent, stage, r) ==
    [agent |-> agent, version |-> "1.0", stage |-> stage,
     status |-> r.status, result |-> r.result,
     metadata |-> [tokens_used |-> 0, cost_usd |-> r.cost_usd]]

\* the directory after executeAgent, and the value it returns
executeAgentFiles(agent, stage, tree, cost) ==
    LET r == executeAgentLogic(agent, stage, tree, cost)
        withArtifacts == WriteAll(tree[stage].files, r.result.deliverables, "artifact")
        chk == checkArtifacts(r.result.deliverables, withArtifacts)
        persisted == applyArtifactCheck(r, chk)
    IN [files |-> persistResult(withArtifacts, agent, persisted),
        value |-> executeAgentValue(agent, stage, persisted)]

\* the content of a file cut short by a concurrent rewrite: JSON.parse throws
Truncated == [truncated |-> TRUE]

\* fs.readFile + JSON.parse of a sibling result succeed
Readable(files, f) == f \in DOMAIN files /\ files[f] # Truncated

\* the declaration order of the deliverable files of a parallel group
FileOrder ==
    <<"wireframes-notes.md", "design-system.md", "component-structure.md",
      "state-management.md", "api-spec.md", "database-schema.md">>

RECURSIVE Flatten(_)
Flatten(seqs) == IF seqs = <<>> THEN <<>> ELSE Head(seqs) \o Flatten(Tail(seqs))

\* String.prototype.toLowerCase on the technology names of a brief
toLowerCase(w) == CASE w = "React" -> "react" [] w = "Vue" -> "vue" [] OTHER -> w

\* the decisions text of a result mentions the word, case-insensitively
Mentions(decisions, word) ==
    \E k \in 1..Len(decisions) : \E n \in 1..Len(decisions[k]) :
        toLowerCase(decisions[k][n]) = toLowerCase(word)

\* the context runCoordinator builds carries neither requirements nor constraints
CoordinatorContext == [requirements |-> Null, constraints |-> Null]

\* an api-spec.md whose endpoint paths hold spaces or parentheses
BadEndpoints == "api-spec with non-slug-safe endpoints"

\* faulty variant: the consolidated status ignores missing deliverable files
consolidatedStatus_IssuesOnly(hasCriticalIssues, hasMissingDeliverables) ==
    IF hasCriticalIssues THEN "blocked" ELSE "success"

\* executeCoordinatorLogic, "Determine status"
consolidatedStatus(hasCriticalIssues, hasMissingDeliverables) ==
    IF hasCriticalIssues \/ hasMissingDeliverables THEN "blocked" ELSE "success"

\* faulty variant: with an input missing the siblings present are still aggregated
missingInputsShortCircuit_Partial(missingInputs) == FALSE

\* executeCoordinatorLogic, "If any agent output missing -> BLOCKED"
missingInputsShortCircuit(missingInputs) == Len(missingInputs) > 0

\* filename.replace('.json', ''): the agent name of a sibling result file
AgentOf(f) ==
    CASE f = "designer-agent.json" -> "designer-agent"
      [] f = "frontend-agent.json" -> "frontend-agent"
      [] f = "backend-agent.json" -> "backend-agent"

\* faulty variant: the conflicts are emitted before the missing deliverables
actionItems_ConflictsFirst(stage, missingDeliverables, conflicts, criticalIssues) ==
    LET drafts ==
            [k \in 1..Len(conflicts) |->
                [owner |-> conflicts[k].owner, severity |-> conflicts[k].severity,
                 source |-> "coordinator-conflict-detection", about |-> conflicts[k].type]]
            \o [k \in 1..Len(missingDeliverables) |->
                [owner |-> missingDeliverables[k].agent, severity |-> "high",
                 source |-> "coordinator", about |-> missingDeliverables[k].file]]
            \o [k \in 1..Len(criticalIssues) |->
                [owner |-> criticalIssues[k].agent, severity |-> "critical",
                 source |-> criticalIssues[k].agent, about |-> "critical issue"]]
        padStart(k) == <<k \div 100, (k \div 10) % 10, k % 10>>
    IN [k \in 1..Len(drafts) |-> drafts[k] @@ [id |-> <<stage, "AI", padStart(k)>>]]

\* executeCoordinatorLogic 4.5: the action items, the missing deliverables
\* first, then the conflicts, then the critical issues; the id of the k-th
\* item is <stage>-AI-<k written with three digits>
actionItems(stage, missingDeliverables, conflicts, criticalIssues) ==
    LET drafts ==
            [k \in 1..Len(missingDeliverables) |->
                [owner |-> missingDeliverables[k].agent, severity |-> "high",
                 source |-> "coordinator", about |-> missingDeliverables[k].file]]
            \o [k \in 1..Len(conflicts) |->
                [owner |-> conflicts[k].owner, severity |-> conflicts[k].severity,
                 source |-> "coordinator-conflict-detection", about |-> conflicts[k].type]]
            \o [k \in 1..Len(criticalIssues) |->
                [owner |-> criticalIssues[k].agent, severity |-> "critical",
                 source |-> criticalIssues[k].agent, about |-> "critical issue"]]
        padStart(k) == <<k \div 100, (k \div 10) % 10, k % 10>>
    IN [k \in 1..Len(drafts) |-> drafts[k] @@ [id |-> <<stage, "AI", padStart(k)>>]]

\* executeCoordinatorLogic: re-reads the three sibling results from the directory
executeCoordinatorLogic(files, stage, context) ==
    LET agentFiles == <<"designer-agent.json", "frontend-agent.json", "backend-agent.json">>
        missingInputs == SelectSeq(agentFiles, LAMBDA f : ~Readable(files, f))
        agentData == SelectSeq(agentFiles, LAMBDA f : Readable(files, f))
        allDeliverables ==
            Flatten([k \in 1..Len(agentData) |->
                LET declared == SelectSeq(FileOrder, LAMBDA d :
                                    d \in files[agentData[k]].result.deliverables)
                IN [n \in 1..Len(declared) |->
                      [agent |-> AgentOf(agentData[k]), file |-> declared[n],
                       exists |-> declared[n] \in DOMAIN files]]])
        missingDeliverables == SelectSeq(allDeliverables, LAMBDA d : ~d.exists)
        allDecisions ==
            Flatten([k \in 1..Len(agentData) |-> files[agentData[k]].result.decisions])
        allIssues ==
            Flatten([k \in 1..Len(agentData) |->
                LET issues == files[agentData[k]].result.issues
                IN [n \in 1..Len(issues) |->
                      [agent |-> AgentOf(agentData[k]), issue |-> issues[n]]]])
        preferredTech ==
            IF context.constraints # Null /\ Len(context.constraints.tech_preferences) > 0
            THEN context.constraints.tech_preferences[1] ELSE Null
        techConflicts ==
            IF /\ preferredTech # Null
               /\ Readable(files, "frontend-agent.json")
               /\ ~Mentions(files["frontend-agent.json"].result.decisions, preferredTech)
            THEN <<[type |-> "tech_stack_mismatch", severity |-> "medium",
                    owner |-> "frontend-agent"]>>
            ELSE <<>>
        uncoveredFeatures ==
            IF context.requirements = Null THEN {}
            ELSE {f \in context.requirements.functional :
                    \A k \in 1..Len(allDeliverables) :
                        allDeliverables[k].file # f \o ".md"}
        coverageConflicts ==
            IF uncoveredFeatures # {}
            THEN <<[type |-> "coverage_gap", severity |-> "high", owner |-> "team"]>>
            ELSE <<>>
        endpointConflicts ==
            IF \E k \in 1..Len(allDeliverables) :
                  /\ allDeliverables[k].file = "api-spec.md"
                  /\ allDeliverables[k].exists
                  /\ files["api-spec.md"] = BadEndpoints
            THEN <<[type |-> "invalid_endpoint_naming", severity |-> "medium",
                    owner |-> "team"]>>
            ELSE <<>>
        conflicts == techConflicts \o coverageConflicts \o endpointConflicts
        criticalIssues == SelectSeq(allIssues, LAMBDA i : i.issue.severity = "critical")
        items == actionItems(stage, missingDeliverables, conflicts, criticalIssues)
        hasCriticalIssues == Len(criticalIssues) > 0
        hasMissingDeliverables == Len(missingDeliverables) > 0
    IN IF missingInputsShortCircuit(missingInputs)
       THEN [status |-> "blocked",
             result |-> [summary |-> <<"Cannot consolidate - missing agent outputs">>,
                         deliverables |-> {},
                         consolidated |-> [total_deliverables |-> 0, total_decisions |-> 0,
                                           total_issues |-> 1, total_actions |-> 0,
                                           conflicts |-> 0],
                         decisions |-> <<>>,
                         issues |-> <<[severity |-> "critical",
                                       missing_inputs |-> missingInputs]>>,
                         next_steps |-> <<>>],
             cost_usd |-> Null]
       ELSE [status |-> consolidatedStatus(hasCriticalIssues, hasMissingDeliverables),
             result |-> [summary |-> <<"Consolidated outputs", Len(agentData), stage>>,
                         deliverables |->
                             {"consolidated-brief.md", "next-actions.md", "owners.json"}
                             \cup (IF Len(allIssues) > 0 \/ Len(conflicts) > 0
                                   THEN {"blockers.md"} ELSE {}),
                         consolidated |-> [total_deliverables |-> Len(allDeliverables),
                                           total_decisions |-> Len(allDecisions),
                                           total_issues |-> Len(allIssues),
                                           total_actions |-> Len(items),
                                           conflicts |-> Len(conflicts),
                                           all_deliverables |-> allDeliverables,
                                           all_decisions |-> allDecisions,
                                           all_issues |-> allIssues,
                                           action_items |-> items,
                                           conflicts_detail |-> conflicts],
                         decisions |-> <<<<"Consolidated", Len(agentData)>>,
                                         <<"deliverables", Len(allDeliverables),
                                           Len(missingDeliverables)>>,
                                         <<"decisions", Len(allDecisions)>>,
                                         <<"issues", Len(allIssues)>>,
                                         <<"actions", Len(items)>>,
                                         <<"conflicts", Len(conflicts)>>>>,
                         issues |-> IF hasMissingDeliverables
                                    THEN <<[severity |-> "high",
                                            missing |-> [k \in 1..Len(missingDeliverables) |->
                                                           missingDeliverables[k].file]]>>
                                    ELSE allIssues,
                         next_steps |-> [k \in 1..Len(items) |->
                                           <<items[k].owner, items[k].about>>]],
             cost_usd |-> Null]

\* runCoordinator: the value pushed onto the results carries status success
runCoordinator(stage, files) ==
    LET consolidatedResult == executeCoordinatorLogic(files, stage, CoordinatorContext)
    IN [files |-> WriteFile(WriteFile(files, "coordinator-agent.json", consolidatedResult),
                            "coordinator-agent.md", "summary"),
        value |-> [agent |-> "coordinator-agent", version |-> "1.0", stage |-> stage,
                   status |-> "success", result |-> consolidatedResult.result,
                   metadata |-> [agents_consolidated |-> 3]]]

\* faulty variant: a failed result takes precedence over a blocked one
consolidateResults_FailedFirst(results, stage) ==
    LET anyBlocked == \E k \in 1..Len(results) : results[k].status = "blocked"
        anyFailed == \E k \in 1..Len(results) : results[k].status = "failed"
    IN [stage |-> stage,
        status |-> IF anyFailed THEN "failed"
                   ELSE IF anyBlocked THEN "blocked" ELSE "success",
        agents |-> [k \in 1..Len(results) |->
                      [name |-> results[k].agent, status |-> results[k].status]],
        summary |-> <<"Stage", stage>>]

consolidateResults(results, stage) ==
    LET anyBlocked == \E k \in 1..Len(results) : results[k].status = "blocked"
        anyFailed == \E k \in 1..Len(results) : results[k].status = "failed"
    IN [stage |-> stage,
        status |-> IF anyBlocked THEN "blocked"
                   ELSE IF anyFailed THEN "failed" ELSE "success",
        agents |-> [k \in 1..Len(results) |->
                      [name |-> results[k].agent, status |-> results[k].status]],
        summary |-> <<"Stage", stage>>]

\* a property of a result object that the object may not have: undefined is 0
TopLevel(r, field) == IF field \in DOMAIN r THEN r[field] ELSE 0

RECURSIVE sumField(_, _)
sumField(results, field) ==
    IF results = <<>> THEN 0
    ELSE TopLevel(Head(results), field) + sumField(Tail(results), field)

RECURSIVE sumUsageCost(_)
sumUsageCost(results) ==
    IF results = <<>> THEN 0
    ELSE (IF "llm_usage" \in DOMAIN Head(results)
          THEN Head(results).llm_usage.cost ELSE 0) + sumUsageCost(Tail(results))

\* generateRunManifest: the manifest written to outputs/<slug>/<stage>/run.json
generateRunManifest(consolidatedResult, i, stage, agentResults, dir, file) ==
    LET artifacts == DOMAIN dir.files
                     \cup (IF dir.run # NoFile THEN {"run.json"} ELSE {})
        gates == IF file # NoFile THEN file
                 ELSE [payment_verified |-> FALSE, dns_verified |-> FALSE,
                       contract_signed |-> FALSE, proposal_approved |-> FALSE]
        totalCost == sumField(agentResults, "cost_usd")
        byAgent == SelectSeq(agentResults, LAMBDA r : "llm_usage" \in DOMAIN r)
    IN [run_id |-> <<stage, i>>,
        stage |-> stage,
        status |-> consolidatedResult.status,
        artifacts |-> artifacts,
        gates |-> gates,
        agents |-> [k \in 1..Len(agentResults) |->
                      [name |-> agentResults[k].agent, status |-> agentResults[k].status,
                       version |-> agentResults[k].version]],
        metrics |-> [total_artifacts |-> Cardinality(artifacts),
                     total_agents |-> Len(agentResults),
                     cost_usd |-> IF totalCost # 0 THEN [usd |-> totalCost] ELSE Null],
        llm_usage |-> IF Len(byAgent) > 0
                      THEN [total_cost_usd |-> sumUsageCost(agentResults)]
                      ELSE Null]

gateBlockedResult(i, stage, gateResult) ==
    [run_id |-> <<stage, i>>, stage |-> stage, status |-> "blocked",
     reason |-> gateResult.reason,
     commercial_message |-> gateResult.commercial_message,
     missing_gates |-> gateResult.missing,
     gates_state |-> gateResult.gates_state,
     artifacts |-> {}, agents |-> <<>>]

budgetBlockedResult(i, stage, budgetCheck) ==
    [run_id |-> <<stage, i>>, stage |-> stage, status |-> "blocked",
     reason |-> budgetCheck.reason,
     commercial_message |-> <<"budget exceeded">>,
     budget_exceeded |-> TRUE,
     spent_usd |-> budgetCheck.spent, limit_usd |-> budgetCheck.limit,
     artifacts |-> {}, agents |-> <<>>]

\* faulty variant: the denial returns without persisting its manifest
writeBlockedRunManifest_Skip(tree, stage, blockedResult) == tree

\* writeBlockedRunManifest: run.json of the stage directory is replaced
writeBlockedRunManifest(tree, stage, blockedResult) ==
    [tree EXCEPT ![stage].run = blockedResult]

\* the files of a directory whose content differs between two trees
ChangedFiles(old, new, stage) ==
    {n \in DOMAIN new[stage].files :
        n \notin DOMAIN old[stage].files \/ old[stage].files[n] # new[stage].files[n]}

-----------------------------------------------------------------------------
(* The driver as a state machine: one step per suspension point *)

IdleInv ==
    [pc |-> "idle", stage |-> <<>>, gateResult |-> NotCalled,
     budgetCheck |-> NotCalled, blockedResult |-> NotCalled,
     agents |-> <<>>, running |-> {}, done |-> <<>>, results |-> <<>>,
     returned |-> NotCalled, exitCode |-> -1,
     \* history of the invocation, read by the properties only
     started |-> {}, filesWritten |-> {}, wrote |-> <<>>,
     ledgerTotal |-> -1, checkedBefore |-> {}, doneBefore |-> {},
     unwrittenAtRead |-> {}, threw |-> FALSE, depAbsent |-> FALSE,
     writtenBy |-> <<>>]

\* gate records the client may have when the command starts
DriverGateFiles ==
    {NoFile,
     [k \in GateKeys |-> TRUE],
     [payment_verified |-> TRUE, dns_verified |-> FALSE,
      contract_signed |-> TRUE, ssl_verified |-> FALSE],
     [payment_verified |-> FALSE, contract_signed |-> FALSE]}

\* the records an admin action leaves: every gate granted, or payment revoked
AdminGateTargets ==
    {[k \in GateKeys |-> TRUE], [payment_verified |-> FALSE, contract_signed |-> FALSE]}

\* costs carried by the run manifests already under the client's output tree
DriverPastCosts == {10, 48}

DriverUsages == {NoFile} \cup {[total_cost_usd |-> c] : c \in DriverPastCosts}

DriverTrees ==
    {[d \in DriverStages |->
        [run |-> IF d \in {S2, S3} THEN RunFile(d, u[d]) ELSE NoFile,
         files |-> <<>>]] : u \in [{S2, S3} -> DriverUsages]}

Init ==
    /\ arg = [fn |-> "none"]
    /\ ret = NotCalled
    /\ gatesFile \in DriverGateFiles
    /\ registry = [kind |-> "client", gates |-> Null, current_stage |-> PS0]
    /\ outputs \in DriverTrees
    /\ inv = [i \in Invs |-> IdleInv]
    /\ adminOps = 0
    /\ exec = NotCalled

\* faulty variant: a blocked result also ends the process with code 0
exitCodeOf_BlockedOk(result) ==
    IF result.status \in {"success", "blocked"} THEN 0 ELSE 1

\* main: process.exit(result.status === 'success' ? 0 : 1)
exitCodeOf(result) ==
    IF result.status = "success" THEN 0 ELSE 1

\* main + loadClient: the command is started for a stage; without a --stage
\* value main prints the usage line and exits with code 1
Start(i, stage) ==
    /\ inv[i].pc = "idle"
    /\ inv' = IF stage = EmptyStage
              THEN [inv EXCEPT ![i].pc = "terminated", ![i].exitCode = 1]
              ELSE [inv EXCEPT ![i].pc = "gate", ![i].stage = stage]
    /\ UNCHANGED <<arg, ret, exec, gatesFile, registry, outputs, adminOps>>

\* executeStage step 2: checkGates; a denial builds the blocked result
GateCheck(i) ==
    /\ inv[i].pc = "gate"
    /\ LET g == checkGates(gatesFile, registry, registry.current_stage, inv[i].stage)
       IN inv' = [inv EXCEPT
                    ![i].gateResult = g,
                    ![i].pc = IF g.passed THEN "budget" ELSE "blocked",
                    ![i].blockedResult =
                        IF g.passed THEN NotCalled
                        ELSE gateBlockedResult(i, inv[i].stage, g)]
    /\ UNCHANGED <<arg, ret, exec, gatesFile, registry, outputs, adminOps>>

\* faulty variant: a budget denial does not return and the stage goes on
BudgetCheck_NoReturn(i) ==
    /\ inv[i].pc = "budget"
    /\ LET b == checkBudget(outputs, inv[i].stage)
       IN inv' = [inv EXCEPT
                    ![i].budgetCheck = b,
                    ![i].pc = "load",
                    ![i].ledgerTotal = totalSpent(outputs),
                    ![i].checkedBefore = {j \in Invs : inv[j].budgetCheck # NotCalled},
                    ![i].doneBefore = {j \in Invs : inv[j].pc = "terminated"}]
    /\ UNCHANGED <<arg, ret, exec, gatesFile, registry, outputs, adminOps>>

\* executeStage step 3: checkBudget; a denial builds the blocked result
BudgetCheck(i) ==
    /\ inv[i].pc = "budget"
    /\ LET b == checkBudget(outputs, inv[i].stage)
       IN inv' = [inv EXCEPT
                    ![i].budgetCheck = b,
                    ![i].pc = IF b.withinBudget THEN "load" ELSE "blocked",
                    ![i].blockedResult =
                        IF b.withinBudget THEN NotCalled
                        ELSE budgetBlockedResult(i, inv[i].stage, b),
                    ![i].ledgerTotal = totalSpent(outputs),
                    ![i].checkedBefore = {j \in Invs : inv[j].budgetCheck # NotCalled},
                    ![i].doneBefore = {j \in Invs : inv[j].pc = "terminated"}]
    /\ UNCHANGED <<arg, ret, exec, gatesFile, registry, outputs, adminOps>>

\* the denial path: writeBlockedRunManifest, then the blocked result is returned
WriteBlocked(i) ==
    /\ inv[i].pc = "blocked"
    /\ outputs' = writeBlockedRunManifest(outputs, inv[i].stage, inv[i].blockedResult)
    /\ inv' = [inv EXCEPT
                 ![i].pc = "terminated",
                 ![i].wrote = Append(@, outputs'[inv[i].stage].run),
                 ![i].filesWritten = @ \cup ChangedFiles(outputs, outputs', inv[i].stage),
                 ![i].returned = inv[i].blockedResult,
                 ![i].exitCode = exitCodeOf(inv[i].blockedResult)]
    /\ UNCHANGED <<arg, ret, exec, gatesFile, registry, adminOps>>

\* executeStage step 4: no agent for the stage returns failed at once;
\* otherwise every executor of the stage is started
LoadAgents(i) ==
    /\ inv[i].pc = "load"
    /\ LET agents == getAgentsForStage(inv[i].stage)
       IN IF Len(agents) = 0
          THEN LET noAgents == [status |-> "failed",
                                reason |-> <<"No agents configured for", inv[i].stage>>]
               IN inv' = [inv EXCEPT
                            ![i].pc = "terminated",
                            ![i].returned = noAgents,
                            ![i].exitCode = exitCodeOf(noAgents)]
          ELSE inv' = [inv EXCEPT
                         ![i].pc = "executing",
                         ![i].agents = agents,
                         ![i].running = Range(agents),
                         ![i].started = Range(agents)]
    /\ UNCHANGED <<arg, ret, exec, gatesFile, registry, outputs, adminOps>>

\* executeAgent for one executor of the stage
AgentRun(i, a, cost) ==
    /\ inv[i].pc = "executing"
    /\ a \in inv[i].running
    /\ LET e == executeAgentFiles(a, inv[i].stage, outputs, cost)
       IN /\ outputs' = [outputs EXCEPT ![inv[i].stage].files = e.files]
          /\ inv' = [inv EXCEPT
                       ![i].running = @ \ {a},
                       ![i].done = (a :> e.value) @@ @,
                       ![i].writtenBy =
                           (a :> (e.value.result.deliverables
                                  \cup {a \o ".json", a \o ".md"})) @@ @,
                       ![i].depAbsent =
                           inv[i].stage = S3
                           /\ "coordinator-agent.json" \notin DOMAIN outputs[S2].files,
                       ![i].filesWritten = @ \cup ChangedFiles(outputs, outputs', inv[i].stage)]
    /\ UNCHANGED <<arg, ret, exec, gatesFile, registry, adminOps>>

\* an executor rejects (its fs.mkdir fails) before it writes anything:
\* Promise.all rejects at once, executeStage throws and main exits with
\* code 1 while the other executors of the group are still in flight
AgentThrow(i, a) ==
    /\ inv[i].pc = "executing"
    /\ a \in inv[i].running
    /\ inv' = [inv EXCEPT
                 ![i].pc = "terminated",
                 ![i].running = @ \ {a},
                 ![i].threw = TRUE,
                 ![i].exitCode = 1]
    /\ UNCHANGED <<arg, ret, exec, gatesFile, registry, outputs, adminOps>>

\* faulty variant: the group call returns as soon as one executor has returned
groupSettled_First(i) == inv[i].running # Range(inv[i].agents)

\* await Promise.all(promises) with every promise fulfilled
groupSettled(i) == inv[i].running = {}

\* the join: every executor has returned; a group of several runs the coordinator
Join(i) ==
    /\ inv[i].pc = "executing"
    /\ groupSettled(i)
    /\ LET agents == inv[i].agents
           settled == SelectSeq(agents, LAMBDA a : a \in DOMAIN inv[i].done)
           results == [k \in 1..Len(settled) |-> inv[i].done[settled[k]]]
       IN IF Len(agents) = 1
          THEN /\ inv' = [inv EXCEPT ![i].pc = "manifest", ![i].results = results]
               /\ UNCHANGED outputs
          ELSE LET c == runCoordinator(inv[i].stage, outputs[inv[i].stage].files)
               IN /\ outputs' = [outputs EXCEPT ![inv[i].stage].files = c.files]
                  /\ inv' = [inv EXCEPT
                               ![i].pc = "manifest",
                               ![i].results = Append(results, c.value),
                               ![i].unwrittenAtRead =
                                   {a \in Range(agents) :
                                       \/ a \notin DOMAIN inv[i].done
                                       \/ (a \o ".json") \notin
                                              DOMAIN outputs[inv[i].stage].files},
                               ![i].filesWritten =
                                   @ \cup ChangedFiles(outputs, outputs', inv[i].stage)]
    /\ UNCHANGED <<arg, ret, exec, gatesFile, registry, adminOps>>

\* executeStage steps 6-8: consolidateResults, generateRunManifest, return
WriteManifest(i) ==
    /\ inv[i].pc = "manifest"
    /\ LET stage == inv[i].stage
           consolidatedResult == consolidateResults(inv[i].results, stage)
           manifest == generateRunManifest(consolidatedResult, i, stage, inv[i].results,
                                           outputs[stage], gatesFile)
       IN /\ outputs' = [outputs EXCEPT ![stage].run = manifest]
          /\ inv' = [inv EXCEPT
                       ![i].pc = "terminated",
                       ![i].wrote = Append(@, outputs'[stage].run),
                       ![i].returned = consolidatedResult,
                       ![i].exitCode = exitCodeOf(consolidatedResult)]
    /\ UNCHANGED <<arg, ret, exec, gatesFile, registry, adminOps>>

\* the external control surface changes the client's gate record
AdminSetGates(g) ==
    /\ adminOps < MaxAdminOps
    /\ g # gatesFile
    /\ gatesFile' = g
    /\ adminOps' = adminOps + 1
    /\ UNCHANGED <<arg, ret, exec, registry, outputs, inv>>

Next ==
    \/ \E i \in Invs, stage \in DriverStages \cup {EmptyStage} : Start(i, stage)
    \/ \E i \in Invs : GateCheck(i)
    \/ \E i \in Invs : BudgetCheck(i)
    \/ \E i \in Invs : WriteBlocked(i)
    \/ \E i \in Invs : LoadAgents(i)
    \/ \E i \in Invs, a \in {"presales-agent", "designer-agent", "frontend-agent",
                            "backend-agent", "qa-agent"}, cost \in 0..MaxAgentCost :
          AgentRun(i, a, cost)
    \/ \E i \in Invs, a \in {"presales-agent", "designer-agent", "frontend-agent",
                            "backend-agent", "qa-agent"} : AgentThrow(i, a)
    \/ \E i \in Invs : Join(i)
    \/ \E i \in Invs : WriteManifest(i)
    \/ \E g \in AdminGateTargets : AdminSetGates(g)

Spec == Init /\ [][Next]_vars

-----------------------------------------------------------------------------
(* Function-level specification of the Consolidator: any state of the stage *)
(* directory of a parallel group; one call of executeCoordinatorLogic.      *)

SiblingFiles == {"designer-agent.json", "frontend-agent.json", "backend-agent.json"}

\* a persisted result of a task executor of stage S2 with the given issues
SiblingResult(agent, issues) ==
    [status |-> IF \E k \in 1..Len(issues) : issues[k].severity = "critical"
                THEN "blocked" ELSE "success",
     result |-> [summary |-> <<agent, S2>>,
                 deliverables |-> Deliverables(S2, agent, FALSE),
                 decisions |-> Decisions(S2, agent, FALSE),
                 issues |-> issues],
     cost_usd |-> 0]

\* what the directory holds under a sibling's name: nothing, a file cut short,
\* or a result without issue, with a critical issue, with a medium issue
SiblingKinds == {"absent", "truncated", "clean", "critical", "medium"}

SiblingContent(f, kind) ==
    IF kind = "truncated" THEN Truncated
    ELSE IF kind = "clean" THEN SiblingResult(AgentOf(f), <<>>)
    ELSE SiblingResult(AgentOf(f), <<[severity |-> kind]>>)

\* a stage directory: the sibling results by kind, the artifact files that
\* are present, api-spec.md with slug-safe endpoints or not
CoordDir(kinds, artifacts, badEndpoints) ==
    [n \in {f \in SiblingFiles : kinds[f] # "absent"} \cup artifacts |->
        IF n \in SiblingFiles THEN SiblingContent(n, kinds[n])
        ELSE IF n = "api-spec.md" /\ badEndpoints THEN BadEndpoints
        ELSE "artifact"]

CoordDirs ==
    {CoordDir(kinds, artifacts, bad) :
        kinds \in [SiblingFiles -> SiblingKinds],
        artifacts \in SUBSET Range(FileOrder),
        bad \in BOOLEAN}

\* the stage directory, and the technology preferences of the client's
\* brief.json (constraints.tech_preferences) at the time of the pass
InitCoord ==
    /\ arg \in [fn : {"executeCoordinatorLogic"}, files : CoordDirs, stage : {S2},
                tech_preferences : {<<>>, <<"Vue">>, <<"react">>}]
    /\ ret = NotCalled
    /\ exec = NotCalled
    /\ DriverIdle

EvalCoordinatorLogic ==
    /\ arg.fn = "executeCoordinatorLogic"
    /\ ret = NotCalled
    /\ ret' = executeCoordinatorLogic(arg.files, arg.stage, CoordinatorContext)
    /\ UNCHANGED <<arg, exec, driverVars>>

NextCoord == EvalCoordinatorLogic

SpecCoord == InitCoord /\ [][NextCoord]_vars

-----------------------------------------------------------------------------
(* Function-level specification of the status aggregation: any sequence of *)
(* results of a stage; one call of consolidateResults.                      *)

\* the largest number of results of one stage (three executors and the
\* coordinator in the code)
MaxResults == 4

TaskStatuses == {"success", "blocked", "failed"}

\* a result as executeAgent returns it, with the given status
ResultOf(k, status) ==
    [agent |-> <<"agent", k>>, version |-> "1.0", stage |-> S2, status |-> status,
     result |-> [summary |-> <<"agent", k>>, deliverables |-> {}, decisions |-> <<>>,
                 issues |-> <<>>],
     metadata |-> [tokens_used |-> 0, cost_usd |-> 0]]

ResultSets ==
    UNION {{[k \in 1..n |-> ResultOf(k, st[k])] : st \in [1..n -> TaskStatuses]} :
              n \in 0..MaxResults}

InitConsolidate ==
    /\ arg \in [fn : {"consolidateResults"}, results : ResultSets, stage : {S2}]
    /\ ret = NotCalled
    /\ exec = NotCalled
    /\ DriverIdle

EvalConsolidateResults ==
    /\ arg.fn = "consolidateResults"
    /\ ret = NotCalled
    /\ ret' = consolidateResults(arg.results, arg.stage)
    /\ UNCHANGED <<arg, exec, driverVars>>

NextConsolidate == EvalConsolidateResults

SpecConsolidate == InitConsolidate /\ [][NextConsolidate]_vars

-----------------------------------------------------------------------------
(* Function-level specification of the end of a parallel group: the three  *)
(* executors of S2 have returned; between their writes and the read of the  *)
(* Consolidator files of the stage directory may have been removed, or a    *)
(* sibling result may be in the middle of a rewrite by a concurrent         *)
(* invocation of the same stage. One pass of executeStage from the          *)
(* coordinator to the exit code.                                            *)

\* the largest number of files removed from the stage directory
MaxLost == 2

RECURSIVE runExecutors(_, _, _)
\* the executors of the stage run one after the other on the tree; the value
\* is the tree they leave and the results they return, in the order of agents
runExecutors(agents, stage, acc) ==
    IF agents = <<>> THEN acc
    ELSE LET e == executeAgentFiles(Head(agents), stage, acc.tree, 0)
         IN runExecutors(Tail(agents), stage,
                [tree |-> [acc.tree EXCEPT ![stage].files = e.files],
                 results |-> Append(acc.results, e.value)])

\* the group of S2 made of the agents getAgentsForStage could load (an agent
\* whose definition cannot be loaded is skipped with a warning), run on a
\* stage directory that is empty or holds the files of an earlier run
GroupRun(members, leftover) ==
    LET empty == [tree |-> (S2 :> [run |-> NoFile, files |-> <<>>]), results |-> <<>>]
        earlier == runExecutors(getAgentsForStage(S2), S2, empty)
    IN runExecutors(SelectSeq(getAgentsForStage(S2), LAMBDA a : a \in members), S2,
                    [tree |-> IF leftover THEN earlier.tree ELSE empty.tree,
                     results |-> <<>>])

\* the directory with the files of lost removed and those of cut cut short
Disturbed(files, lost, cut) ==
    [n \in DOMAIN files \ lost |-> IF n \in cut THEN Truncated ELSE files[n]]

\* executeStage from runCoordinator to the return, and the exit code of main;
\* when the coordinator cannot be loaded runCoordinator catches the error,
\* writes nothing and returns null, which is not pushed onto the results
finishGroup(parallelResults, stage, files, gates, coordinatorFails) ==
    LET c == IF coordinatorFails THEN [files |-> files, value |-> Null]
             ELSE runCoordinator(stage, files)
        results == IF c.value = Null THEN parallelResults
                   ELSE Append(parallelResults, c.value)
        consolidatedResult == consolidateResults(results, stage)
        manifest == generateRunManifest(consolidatedResult, 1, stage, results,
                                        [run |-> NoFile, files |-> c.files], gates)
    IN [coordinator |-> IF coordinatorFails THEN [status |-> "error"]
                        ELSE c.files["coordinator-agent.json"],
        results |-> results,
        returned |-> consolidatedResult,
        manifest |-> manifest,
        exitCode |-> exitCodeOf(consolidatedResult)]

InitGroup ==
    /\ LET all == Range(getAgentsForStage(S2))
           run == GroupRun(all, FALSE)
           files == run.tree[S2].files
       IN \/ arg \in [fn : {"finishGroup"},
                      members : {all},
                      parallelResults : {run.results},
                      files : {Disturbed(files, lost, cut) :
                                  lost \in {l \in SUBSET DOMAIN files :
                                               Cardinality(l) <= MaxLost},
                                  cut \in {c \in SUBSET SiblingFiles :
                                              Cardinality(c) <= 1}},
                      stage : {S2},
                      coordinatorFails : BOOLEAN]
          \/ \E members \in {m \in SUBSET all : Cardinality(m) = 2}, leftover \in BOOLEAN :
                LET part == GroupRun(members, leftover)
                IN arg = [fn |-> "finishGroup", members |-> members,
                          parallelResults |-> part.results,
                          files |-> part.tree[S2].files, stage |-> S2,
                          coordinatorFails |-> FALSE]
    /\ ret = NotCalled
    /\ exec = NotCalled
    /\ DriverIdle

EvalFinishGroup ==
    /\ arg.fn = "finishGroup"
    /\ ret = NotCalled
    /\ ret' = finishGroup(arg.parallelResults, arg.stage, arg.files,
                          [k \in GateKeys |-> TRUE], arg.coordinatorFails)
    /\ UNCHANGED <<arg, exec, driverVars>>

NextGroup == EvalFinishGroup

SpecGroup == InitGroup /\ [][NextGroup]_vars

-----------------------------------------------------------------------------
(* Executor-level specification: one call of executeAgent followed through *)
(* its suspension points, on any task result its logic may return, while    *)
(* files of the stage directory may be removed from outside.                *)

\* the largest number of files removed from the directory during the call
MaxRemovals == 1

\* the task results the executor's logic returns: the MVP body returns
\* success or blocked; the metered call it stands for may return any status
LogicResults ==
    {[status |-> st,
      result |-> [summary |-> <<"presales-agent", PS2>>, deliverables |-> d,
                  decisions |-> <<>>, issues |-> i],
      cost_usd |-> 0] :
        st \in TaskStatuses,
        d \in {{}, {"design.md"}, {"design.md", "tech-stack.md"}},
        i \in {<<>>, <<[severity |-> "critical"]>>, <<[severity |-> "medium"]>>}}

\* faulty variant: the integrity check is made before the artifacts are written
executeAgentSteps_CheckFirst == <<"logic", "check", "write", "persist">>

\* executeAgent: logic, write artifact files, validate artifacts, save outputs
executeAgentSteps == <<"logic", "write", "check", "persist">>

\* the step the executor is suspended before
StepOf(e) == IF e.step <= Len(executeAgentSteps) THEN executeAgentSteps[e.step] ELSE "done"

InitExec ==
    /\ arg \in [fn : {"executeAgent"}, agent : {"presales-agent"}, stage : {PS2},
                logic : {r \in LogicResults :
                            (\E k \in 1..Len(r.result.issues) :
                                r.result.issues[k].severity = "critical")
                                => r.status # "success"}]
    /\ ret = NotCalled
    /\ exec = [step |-> 1, dir |-> <<>>, result |-> NotCalled, check |-> NotCalled,
               \* history of the call, read by the properties only
               written |-> {}, atCheck |-> NotCalled, persisted |-> NotCalled,
               removals |-> 0]
    /\ DriverIdle

\* const result = await this.executeAgentLogic(agent, context)
ExecLogic ==
    /\ arg.fn = "executeAgent" /\ StepOf(exec) = "logic"
    /\ exec' = [exec EXCEPT !.step = @ + 1, !.result = arg.logic]
    /\ UNCHANGED <<arg, ret, driverVars>>

\* await this.writeArtifactFiles(result.result.deliverables, outputsDir, context)
ExecWrite ==
    /\ arg.fn = "executeAgent" /\ StepOf(exec) = "write"
    /\ exec' = [exec EXCEPT
                  !.step = @ + 1,
                  !.dir = WriteAll(@, exec.result.result.deliverables, "artifact"),
                  !.written = @ \cup exec.result.result.deliverables]
    /\ UNCHANGED <<arg, ret, driverVars>>

\* checkArtifacts and the downgrade of the result
ExecCheck ==
    /\ arg.fn = "executeAgent" /\ StepOf(exec) = "check"
    /\ LET artifactCheck == checkArtifacts(exec.result.result.deliverables, exec.dir)
       IN exec' = [exec EXCEPT
                     !.step = @ + 1,
                     !.check = artifactCheck,
                     !.result = applyArtifactCheck(@, artifactCheck),
                     !.atCheck = [written |-> exec.written,
                                  absent |-> exec.result.result.deliverables
                                                \ DOMAIN exec.dir]]
    /\ UNCHANGED <<arg, ret, driverVars>>

\* the result is saved as <agent>.json and <agent>.md and the value returned
ExecPersist ==
    /\ arg.fn = "executeAgent" /\ StepOf(exec) = "persist"
    /\ exec' = [exec EXCEPT
                  !.step = @ + 1,
                  !.dir = persistResult(@, arg.agent, exec.result),
                  !.persisted = exec.result]
    /\ ret' = executeAgentValue(arg.agent, arg.stage, exec.result)
    /\ UNCHANGED <<arg, driverVars>>

\* a file of the stage directory is removed from outside the executor
ExternalRemove(f) ==
    /\ arg.fn = "executeAgent" /\ StepOf(exec) # "done"
    /\ exec.removals < MaxRemovals
    /\ f \in DOMAIN exec.dir
    /\ exec' = [exec EXCEPT
                  !.dir = [n \in DOMAIN exec.dir \ {f} |-> exec.dir[n]],
                  !.removals = @ + 1]
    /\ UNCHANGED <<arg, ret, driverVars>>

NextExec ==
    \/ ExecLogic
    \/ ExecWrite
    \/ ExecCheck
    \/ ExecPersist
    \/ \E f \in {"design.md", "tech-stack.md"} : ExternalRemove(f)

SpecExec == InitExec /\ [][NextExec]_vars

-----------------------------------------------------------------------------
(* Step-level specification of the metered-call client: one call of        *)
(* BaseLLMProvider.retry(fn, retries), one step per attempt and per sleep. *)

\* the largest number of retries passed to retry
MaxRetries == 3

\* faulty variant: no error is taken for a caller-side error
isClientError_Never(error) == FALSE

\* error.status >= 400 && error.status < 500; false without a status
isClientError(error) ==
    "status" \in DOMAIN error /\ error.status >= 400 /\ error.status < 500

\* Math.min(1000 * Math.pow(2, i), 30000), in milliseconds
backoffDelay(i) ==
    LET d == 1000 * 2^i IN IF d < 30000 THEN d ELSE 30000

\* retries is this.maxRetries, which the constructor leaves undefined, or
\* the number the caller passes
InitRetry ==
    /\ arg \in [fn : {"retry"},
                retries : {Null} \cup {[n |-> k] : k \in 1..MaxRetries}]
    /\ ret = NotCalled
    /\ exec = [pc |-> "loop", i |-> 0, calls |-> 0, errors |-> <<>>, slept |-> <<>>]
    /\ DriverIdle

\* one pass of the loop body up to its next suspension, entered when
\* i < retries (a comparison with undefined is false): fn() fulfils and its
\* value is returned, or it rejects; a caller-side error is rethrown at once
RetryAttempt(outcome) ==
    /\ arg.fn = "retry" /\ exec.pc = "loop"
    /\ arg.retries # Null /\ exec.i < arg.retries.n
    /\ IF outcome = [ok |-> TRUE]
       THEN /\ ret' = [value |-> "response"]
            /\ exec' = [exec EXCEPT !.pc = "done", !.calls = @ + 1]
       ELSE IF isClientError(outcome)
       THEN /\ ret' = [thrown |-> outcome]
            /\ exec' = [exec EXCEPT !.pc = "done", !.calls = @ + 1,
                                    !.errors = Append(@, outcome)]
       ELSE /\ ret' = ret
            /\ exec' = [exec EXCEPT !.pc = "sleep", !.calls = @ + 1,
                                    !.errors = Append(@, outcome)]
    /\ UNCHANGED <<arg, driverVars>>

\* await this.sleep(delay), then i++
RetrySleep ==
    /\ arg.fn = "retry" /\ exec.pc = "sleep"
    /\ exec' = [exec EXCEPT !.pc = "loop", !.i = @ + 1,
                            !.slept = Append(@, backoffDelay(exec.i))]
    /\ UNCHANGED <<arg, ret, driverVars>>

\* the loop is left: throw lastError (undefined when fn was never called)
RetryThrowLast ==
    /\ arg.fn = "retry" /\ exec.pc = "loop"
    /\ ~(arg.retries # Null /\ exec.i < arg.retries.n)
    /\ ret' = [thrown |-> IF exec.errors = <<>> THEN Null
                          ELSE exec.errors[Len(exec.errors)]]
    /\ exec' = [exec EXCEPT !.pc = "done"]
    /\ UNCHANGED <<arg, driverVars>>

\* fn() fulfils, rejects with an HTTP error carrying its status code, or
\* rejects with an error without a status (network error, timeout)
NextRetry ==
    \/ \E outcome \in {[ok |-> TRUE], [message |-> "Request timeout"]}
                        \cup {[status |-> c] : c \in {399, 400, 429, 499, 500, 503}} :
          RetryAttempt(outcome)
    \/ RetrySleep
    \/ RetryThrowLast

SpecRetry == InitRetry /\ [][NextRetry]_vars

-----------------------------------------------------------------------------
(* Step-level specification of the metered-call manager: one LLMManager,   *)
(* several calls of generateText in flight; amounts are in cents.          *)

\* calls of generateText made on one manager
MaxCalls == 3
\* the largest cost the provider reports for one call, in cents
MaxCallCost == 6

\* { ...DEFAULT_BUDGETS, ...config.budgets }: the defaults, or lower limits
\* set by the configuration (0 stands for a limit under one cent)
LLMBudgets ==
    [per_run_usd : {0, 10, 100}, per_client_day_usd : {12, 500}, per_agent_usd : {0, 50}]

\* faulty variant: the per-run budget is not checked
checkBudgets_NoRunCheck(budgets, costs, options) ==
    IF options.agent /\ 1 > budgets.per_agent_usd
    THEN [error |-> "Agent budget exceeded"]
    ELSE IF options.client /\ costs.by_client + 5 > budgets.per_client_day_usd
    THEN [error |-> "Client daily budget exceeded"]
    ELSE [ok |-> TRUE]

\* checkBudgets: the flat estimates are 0.01 for the agent and 0.05 for the
\* run and for the client day; the first limit exceeded throws
checkBudgets(budgets, costs, options) ==
    IF options.agent /\ 1 > budgets.per_agent_usd
    THEN [error |-> "Agent budget exceeded"]
    ELSE IF options.runId /\ costs.by_run + 5 > budgets.per_run_usd
    THEN [error |-> "Run budget exceeded"]
    ELSE IF options.client /\ costs.by_client + 5 > budgets.per_client_day_usd
    THEN [error |-> "Client daily budget exceeded"]
    ELSE [ok |-> TRUE]

\* trackCost: the total, the run's entry and the client's entry of the day
trackCost(costs, options, cost) ==
    [total |-> costs.total + cost,
     by_run |-> IF options.runId THEN costs.by_run + cost ELSE costs.by_run,
     by_client |-> IF options.client THEN costs.by_client + cost ELSE costs.by_client]

\* a new manager: no cost tracked, no call made
InitLLM ==
    /\ arg \in [fn : {"generateText"}, budgets : LLMBudgets]
    /\ ret = NotCalled
    /\ exec = [costs |-> [total |-> 0, by_run |-> 0, by_client |-> 0],
               calls |-> [c \in 1..MaxCalls |->
                            [pc |-> "idle", options |-> Null, check |-> NotCalled,
                             costsAtCheck |-> Null, providerCalled |-> FALSE,
                             tracked |-> Null]]]
    /\ DriverIdle

\* generateText up to the provider call: checkBudgets throws, or the
\* provider is called and the call waits for its answer
LLMCheck(c, options) ==
    /\ arg.fn = "generateText" /\ exec.calls[c].pc = "idle"
    /\ LET chk == checkBudgets(arg.budgets, exec.costs, options)
       IN exec' = [exec EXCEPT
                     !.calls[c].options = options,
                     !.calls[c].check = chk,
                     !.calls[c].costsAtCheck = exec.costs,
                     !.calls[c].providerCalled = "ok" \in DOMAIN chk,
                     !.calls[c].pc = IF "ok" \in DOMAIN chk THEN "calling" ELSE "rejected"]
    /\ UNCHANGED <<arg, ret, driverVars>>

\* the provider answers with its cost, which trackCost records
LLMProviderReturns(c, cost) ==
    /\ arg.fn = "generateText" /\ exec.calls[c].pc = "calling"
    /\ exec' = [exec EXCEPT
                  !.costs = trackCost(exec.costs, exec.calls[c].options, cost),
                  !.calls[c].tracked = [cost |-> cost],
                  !.calls[c].pc = "done"]
    /\ UNCHANGED <<arg, ret, driverVars>>

\* the provider call rejects: generateText throws before trackCost
LLMProviderFails(c) ==
    /\ arg.fn = "generateText" /\ exec.calls[c].pc = "calling"
    /\ exec' = [exec EXCEPT !.calls[c].pc = "failed"]
    /\ UNCHANGED <<arg, ret, driverVars>>

\* every call names the client and the agent; the run id is optional
NextLLM ==
    \/ \E c \in 1..MaxCalls, runId \in BOOLEAN :
          LLMCheck(c, [client |-> TRUE, agent |-> TRUE, runId |-> runId])
    \/ \E c \in 1..MaxCalls, cost \in 0..MaxCallCost : LLMProviderReturns(c, cost)
    \/ \E c \in 1..MaxCalls : LLMProviderFails(c)

SpecLLM == InitLLM /\ [][NextLLM]_vars

-----------------------------------------------------------------------------
(* Function-level specification of the denial path with its alert: any gate *)
(* record, stage and ledger, the webhook configured or not, any outcome of  *)
(* the delivery; one run of executeStage that ends in a denial.             *)

\* faulty variant: a failed delivery is thrown to the caller
sendAlert_Rethrow(configured, delivery) ==
    IF ~configured THEN [threw |-> FALSE, sent |-> FALSE]
    ELSE IF delivery = "ok" THEN [threw |-> FALSE, sent |-> TRUE]
    ELSE [threw |-> TRUE, sent |-> FALSE]

\* sendAlert: nothing is done without PUIUX_ALERT_WEBHOOK_URL; execSync of
\* the notifier throws on a non-zero exit and on its 5 s timeout, and the
\* catch block only logs a warning
sendAlert(configured, delivery) ==
    IF ~configured THEN [threw |-> FALSE, sent |-> FALSE]
    ELSE IF delivery = "ok" THEN [threw |-> FALSE, sent |-> TRUE]
    ELSE [threw |-> FALSE, sent |-> FALSE]

InitAlert ==
    /\ arg \in [fn : {"executeStage"}, file : DriverGateFiles, stage : DriverStages,
                tree : DriverTrees, configured : BOOLEAN,
                delivery : {"ok", "error", "timeout"}]
    /\ ret = NotCalled
    /\ exec = NotCalled
    /\ DriverIdle

\* executeStage on a denial: the blocked result is built, written by
\* writeBlockedRunManifest, which then awaits sendAlert, and returned to
\* main; an error thrown on the way ends main with code 1 and no result
EvalDenial ==
    /\ arg.fn = "executeStage"
    /\ ret = NotCalled
    /\ LET g == checkGates(arg.file, [kind |-> "client", gates |-> Null,
                                      current_stage |-> PS0], PS0, arg.stage)
           b == checkBudget(arg.tree, arg.stage)
           blockedResult == IF ~g.passed THEN gateBlockedResult(1, arg.stage, g)
                            ELSE budgetBlockedResult(1, arg.stage, b)
           tree == writeBlockedRunManifest(arg.tree, arg.stage, blockedResult)
           alert == sendAlert(arg.configured, arg.delivery)
       IN /\ ~g.passed \/ ~b.withinBudget
          /\ ret' = [run |-> tree[arg.stage].run,
                     alert |-> alert,
                     returned |-> IF alert.threw THEN NotCalled ELSE blockedResult,
                     exitCode |-> IF alert.threw THEN 1 ELSE exitCodeOf(blockedResult)]
    /\ UNCHANGED <<arg, exec, driverVars>>

NextAlert == EvalDenial

SpecAlert == InitAlert /\ [][NextAlert]_vars

-----------------------------------------------------------------------------
(* Claims about the gate engine (checked under SpecGate) *)

GateCalled == arg.fn = "checkGates" /\ ret # NotCalled

\* C1: for every delivery stage token S0..S5 and every gate state, the stage
\* is allowed if and only if payment_verified is present and true.
C1_DeliveryIffPayment ==
    (GateCalled /\ arg.toStage \in DeliveryTokens)
        => (ret.passed <=> Truthy(ret.gates_state, "payment_verified"))

C1_Witness ==
    /\ GateCalled
    /\ arg.toStage = S3
    /\ arg.file = [payment_verified |-> TRUE, contract_signed |-> FALSE]
    /\ ret.passed

C3_PresalesOnlyPS5Gated ==
    /\ (GateCalled /\ arg.toStage \in (PresalesTokens \cup {PS6}) \ {PS5})
          => ret.passed
    /\ (GateCalled /\ arg.toStage \in {PS5, ps5})
          => (ret.passed <=> Truthy(ret.gates_state, "contract_signed"))

C3_Witness ==
    /\ GateCalled
    /\ arg.toStage = PS5
    /\ arg.file = [payment_verified |-> TRUE, contract_signed |-> FALSE]
    /\ ~ret.passed
    /\ ret.missing = <<"contract_signed">>

\* C4: with no client gates file and no registry entry carrying gates, every
\* gate flag is taken as false and every stage that requires a gate is denied.
NoGateRecord ==
    /\ arg.file = NoFile
    /\ \/ arg.reg.kind # "client"
       \/ arg.reg.gates = Null

C4_NoRecordAllClosed ==
    (GateCalled /\ NoGateRecord)
        => /\ \A k \in GateKeys : ~Truthy(ret.gates_state, k)
           /\ arg.toStage \in DeliveryTokens \cup ProductionTokens \cup {PS5}
                 => ~ret.passed

C4_Witness ==
    /\ GateCalled
    /\ arg.file = NoFile
    /\ arg.reg.kind = "no_client"
    /\ arg.toStage = DEPLOY
    /\ ~ret.passed
    /\ Len(ret.missing) = 3

-----------------------------------------------------------------------------
(* Claims about the budget check (checked under SpecBudget) *)

BudgetCalled == arg.fn = "checkBudget" /\ ret # NotCalled

\* C7: the budget check rejects whenever the accumulated spend has reached a
\* ceiling it compares against, the boundary spent = limit included, and
\* accepts only when the spend is strictly below each of them.
C7_RejectAtCeiling ==
    BudgetCalled
        => (ret.withinBudget <=> /\ totalSpent(arg.tree) < per_client
                                 /\ stageSpent(arg.tree, arg.stage) < per_stage)

C7_Witness ==
    /\ BudgetCalled
    /\ totalSpent(arg.tree) < per_client
    /\ stageSpent(arg.tree, arg.stage) = per_stage
    /\ ~ret.withinBudget
    /\ ret.spent = ret.limit

\* C8: the budget check enforces all three ceilings: it never accepts when a
\* run recorded in the ledger has met the per-run ceiling, when the stage has
\* met the per-stage ceiling or when the client has met the per-client ceiling.
C8_ThreeCeilings ==
    (BudgetCalled /\ ret.withinBudget)
        => /\ \A d \in DOMAIN arg.tree : runCost(arg.tree[d].run) < per_run
           /\ stageSpent(arg.tree, arg.stage) < per_stage
           /\ totalSpent(arg.tree) < per_client

-----------------------------------------------------------------------------
(* Claims about the driver (checked under Spec) *)

GateDenied(i) == inv[i].gateResult # NotCalled /\ ~inv[i].gateResult.passed

BudgetDenied(i) == inv[i].budgetCheck # NotCalled /\ ~inv[i].budgetCheck.withinBudget

Denied(i) == GateDenied(i) \/ BudgetDenied(i)

\* the manifests this invocation has written that carry status blocked for
\* its own stage and run
BlockedManifestsOf(i) ==
    {k \in 1..Len(inv[i].wrote) :
        /\ "status" \in DOMAIN inv[i].wrote[k]
        /\ inv[i].wrote[k].status = "blocked"
        /\ inv[i].wrote[k].stage = inv[i].stage
        /\ inv[i].wrote[k].run_id = <<inv[i].stage, i>>}

C6_DenialRunsNothing ==
    \A i \in Invs :
        /\ Denied(i) =>
              /\ inv[i].started = {}
              /\ inv[i].done = <<>>
              /\ inv[i].filesWritten = {}
              /\ \A k \in 1..Len(inv[i].wrote) :
                    /\ inv[i].wrote[k].artifacts = {}
                    /\ inv[i].wrote[k].agents = <<>>
        /\ (inv[i].started # {} \/ inv[i].pc = "executing") =>
              /\ inv[i].gateResult # NotCalled /\ inv[i].gateResult.passed
              /\ inv[i].budgetCheck # NotCalled /\ inv[i].budgetCheck.withinBudget

C6_Witness ==
    /\ inv[1].pc = "terminated" /\ BudgetDenied(1)
    /\ inv[1].stage = S2
    /\ inv[1].wrote # <<>>
    /\ inv[2].pc = "executing" /\ inv[2].stage = S3 /\ inv[2].started = {"qa-agent"}

\* the cost the executors of an invocation have reported
RECURSIVE ReportedCost(_, _)
ReportedCost(i, agents) ==
    IF agents = {} THEN 0
    ELSE LET a == CHOOSE x \in agents : TRUE
         IN inv[i].done[a].metadata.cost_usd + ReportedCost(i, agents \ {a})

\* C9: the total a later budget check computes for the client is never lower
\* than the total an earlier budget check computed.
C9_LedgerNonDecreasing ==
    \A i \in Invs : \A j \in inv[i].checkedBefore :
        inv[j].ledgerTotal <= inv[i].ledgerTotal

C11_ManifestsKept ==
    \A i \in Invs : \A k \in 1..Len(inv[i].wrote) :
        \E d \in DOMAIN outputs : outputs[d].run = inv[i].wrote[k]

\* the gate state a manifest records: gates in a manifest of a completed
\* stage, gates_state in the manifest of a gate denial
RecordsGates(m) == "gates" \in DOMAIN m \/ "gates_state" \in DOMAIN m

ManifestGates(m) == IF "gates" \in DOMAIN m THEN m.gates ELSE m.gates_state

\* C12: the gate state recorded in an invocation's run manifest is the gate
\* state its gate decision was made on, also when an admin action changes the
\* gate record between the gate check and the manifest write.
C12_ManifestGateSnapshot ==
    \A i \in Invs : \A k \in 1..Len(inv[i].wrote) :
        RecordsGates(inv[i].wrote[k])
            => ManifestGates(inv[i].wrote[k]) = inv[i].gateResult.gates_state

\* C13: the parallel group call returns control to the driver only once every
\* member executor has completed, normally or with an error: the driver is
\* never at consolidation, at the manifest write or terminated while a member
\* of the group is still running.
C13_JoinWaitsForAll ==
    \A i \in Invs :
        inv[i].pc \in {"manifest", "terminated"} => inv[i].running = {}

\* the Consolidator has read the sibling results of invocation i
ConsolidatorRan(i) ==
    \E k \in 1..Len(inv[i].results) : inv[i].results[k].agent = "coordinator-agent"

\* C14: whenever the Consolidator starts reading sibling results, every task
\* executor of the group has returned and its result file was already
\* persisted; no sibling's result was unwritten at the time of the read.
C14_ConsolidatorAfterPersist ==
    \A i \in Invs :
        ConsolidatorRan(i) =>
            /\ inv[i].unwrittenAtRead = {}
            /\ inv[i].running = {}
            /\ Range(inv[i].agents) \subseteq DOMAIN inv[i].done

C14_Witness ==
    /\ inv[1].stage = S2
    /\ ConsolidatorRan(1)
    /\ Len(inv[1].results) = 4
    /\ {"designer-agent.json", "frontend-agent.json", "backend-agent.json"}
          \subseteq DOMAIN outputs[S2].files
    /\ inv[2].pc = "executing" /\ inv[2].stage = S2 /\ inv[2].running # {}

-----------------------------------------------------------------------------
(* Claims about the Consolidator (checked under SpecCoord) *)

CoordCalled == arg.fn = "executeCoordinatorLogic" /\ ret # NotCalled

\* the expected sibling results that cannot be read from the directory
UnreadableSiblings(files) == {f \in SiblingFiles : ~Readable(files, f)}

\* C17: if any expected sibling result file is absent when the Consolidator
\* runs, the result is blocked with exactly one issue, of critical severity,
\* naming the missing inputs, and nothing is aggregated from the siblings
\* that are present: no deliverable, decision, conflict or action item.
C17_MissingInputShortCircuit ==
    (CoordCalled /\ UnreadableSiblings(arg.files) # {})
        => /\ ret.status = "blocked"
           /\ Len(ret.result.issues) = 1
           /\ ret.result.issues[1].severity = "critical"
           /\ Range(ret.result.issues[1].missing_inputs) = UnreadableSiblings(arg.files)
           /\ ret.result.deliverables = {}
           /\ ret.result.decisions = <<>>
           /\ ret.result.next_steps = <<>>
           /\ ret.result.consolidated =
                 [total_deliverables |-> 0, total_decisions |-> 0, total_issues |-> 1,
                  total_actions |-> 0, conflicts |-> 0]

C17_Witness ==
    /\ CoordCalled
    /\ UnreadableSiblings(arg.files) = {"designer-agent.json"}
    /\ arg.files["frontend-agent.json"].result.issues = <<[severity |-> "critical"]>>
    /\ "api-spec.md" \in DOMAIN arg.files /\ arg.files["api-spec.md"] = BadEndpoints
    /\ "database-schema.md" \notin DOMAIN arg.files
    /\ ret.status = "blocked"
    /\ ret.result.issues[1].missing_inputs = <<"designer-agent.json">>

\* a deliverable file declared by a sibling result is not in the directory
AnyMissingDeliverable(files) ==
    \E f \in SiblingFiles : \E d \in files[f].result.deliverables : d \notin DOMAIN files

\* a sibling result carries an issue of critical severity
AnyCriticalIssue(files) ==
    \E f \in SiblingFiles : \E k \in 1..Len(files[f].result.issues) :
        files[f].result.issues[k].severity = "critical"

\* C18: when all expected sibling results are present, the consolidated
\* status is blocked if and only if a declared deliverable file is missing or
\* a sibling issue has critical severity; otherwise it is success.
C18_BlockedIffMissingOrCritical ==
    (CoordCalled /\ UnreadableSiblings(arg.files) = {})
        => /\ ret.status \in {"blocked", "success"}
           /\ ret.status = "blocked"
                 <=> (AnyMissingDeliverable(arg.files) \/ AnyCriticalIssue(arg.files))

C18_Witness ==
    /\ CoordCalled
    /\ UnreadableSiblings(arg.files) = {}
    /\ ~AnyCriticalIssue(arg.files)
    /\ Range(FileOrder) \ DOMAIN arg.files = {"state-management.md"}
    /\ ret.status = "blocked"
    /\ ret.result.consolidated.total_actions = 1

-----------------------------------------------------------------------------
(* Claims about the status aggregation (checked under SpecConsolidate) *)

ConsolidateCalled == arg.fn = "consolidateResults" /\ ret # NotCalled

SomeResult(status) == \E k \in 1..Len(arg.results) : arg.results[k].status = status

\* C19: for every result set the aggregate status is blocked if any result is
\* blocked, whatever the others are; it is failed only when no result is
\* blocked and at least one is failed; it is success only when every result
\* is success.
C19_StatusPrecedence ==
    ConsolidateCalled
        => /\ SomeResult("blocked") => ret.status = "blocked"
           /\ ret.status = "failed" <=> (~SomeResult("blocked") /\ SomeResult("failed"))
           /\ ret.status = "success"
                 <=> \A k \in 1..Len(arg.results) : arg.results[k].status = "success"
           /\ ret.status \in TaskStatuses

C19_Witness ==
    /\ ConsolidateCalled
    /\ Len(arg.results) = 3
    /\ arg.results[1].status = "failed"
    /\ arg.results[2].status = "success"
    /\ arg.results[3].status = "blocked"
    /\ ret.status = "blocked"

-----------------------------------------------------------------------------
(* Claims about the end of a parallel group (checked under SpecGroup) *)

GroupCalled == arg.fn = "finishGroup" /\ ret # NotCalled

\* C20: after a parallel group the terminal status is derived from the result
\* set including the Consolidator's decision, blocked taking precedence: if
\* the Consolidator's status is blocked, the stage returns blocked, the
\* manifest records blocked and the exit code is non-zero, also when every
\* task executor reported success.
C20_ConsolidatorBlocksStage ==
    (GroupCalled /\ ret.coordinator.status = "blocked")
        => /\ ret.returned.status = "blocked"
           /\ ret.manifest.status = "blocked"
           /\ ret.exitCode # 0

-----------------------------------------------------------------------------
(* Claims about the task executor (checked under SpecExec) *)

ExecChecked == arg.fn = "executeAgent" /\ exec.check # NotCalled

ExecReturned == arg.fn = "executeAgent" /\ ret # NotCalled

\* C15: if the artifact integrity check reports a missing deliverable, a task
\* result whose status is success becomes blocked and gains one synthetic
\* high-severity issue describing the missing files; a result whose status is
\* already blocked or failed keeps its status (and gains the issue); with no
\* missing deliverable the result is left as it was.
C15_MissingDowngradesSuccess ==
    ExecChecked =>
        LET before == arg.logic
            after == exec.result
            n == Len(before.result.issues)
        IN IF exec.check.valid
           THEN after = before
           ELSE /\ after.status = IF before.status = "success" THEN "blocked"
                                  ELSE before.status
                /\ Len(after.result.issues) = n + 1
                /\ SubSeq(after.result.issues, 1, n) = before.result.issues
                /\ after.result.issues[n + 1].severity = "high"
                /\ after.result.issues[n + 1].missing_artifacts = exec.check.missing
                /\ exec.check.missing # {}
                /\ after.result.deliverables = before.result.deliverables
                /\ ExecReturned => /\ ret.status = after.status
                                   /\ exec.persisted = after

C15_Witness ==
    /\ ExecReturned
    /\ arg.logic.status = "success"
    /\ arg.logic.result.issues = <<[severity |-> "medium"]>>
    /\ exec.check.missing = {"tech-stack.md"}
    /\ ret.status = "blocked"
    /\ Len(ret.result.issues) = 2

\* the persisted result reports the file as a missing artifact
ReportedMissing(r, f) ==
    \E k \in 1..Len(r.result.issues) :
        /\ "missing_artifacts" \in DOMAIN r.result.issues[k]
        /\ f \in r.result.issues[k].missing_artifacts

\* C16: in every task-executor run all declared artifact files have been
\* written when the integrity check is invoked, and the check is completed
\* before the result is persisted, so that a declared file absent at check
\* time is reported as missing in the persisted result.
C16_WriteCheckPersistOrder ==
    /\ ExecChecked => exec.atCheck.written = arg.logic.result.deliverables
    /\ (arg.fn = "executeAgent" /\ exec.persisted # NotCalled) =>
          /\ exec.check # NotCalled
          /\ \A f \in exec.atCheck.absent : ReportedMissing(exec.persisted, f)
    /\ ExecReturned => exec.persisted # NotCalled

C16_Witness ==
    /\ ExecReturned
    /\ exec.atCheck.written = {"design.md", "tech-stack.md"}
    /\ exec.atCheck.absent = {"design.md"}
    /\ ReportedMissing(exec.persisted, "design.md")
    /\ ~ReportedMissing(exec.persisted, "tech-stack.md")

-----------------------------------------------------------------------------
(* Claims about failures and exit codes of the driver (checked under Spec) *)

\* invocation i has ended
Terminated(i) == inv[i].pc = "terminated"

\* the result main prints for invocation i carries the given status
Reported(i, status) ==
    inv[i].returned # NotCalled /\ inv[i].returned.status = status

\* C21: if a task executor throws during the Executing state, the invocation
\* ends in the terminal state Failed: it reports the status failed and its
\* exit code is non-zero.
C21_ThrowReportsFailed ==
    \A i \in Invs :
        (Terminated(i) /\ inv[i].threw) =>
            /\ Reported(i, "failed")
            /\ inv[i].exitCode # 0

\* C22: when a task executor raises an unexpected error, a run manifest has
\* been written for the invocation by the time the process exits non-zero.
C22_ThrowWritesManifest ==
    \A i \in Invs :
        (Terminated(i) /\ inv[i].threw) =>
            /\ inv[i].wrote # <<>>
            /\ inv[i].exitCode # 0

\* C23: the exit code is 0 if and only if the terminal status is success;
\* blocked and failed endings, usage errors and uncaught exceptions exit
\* with a non-zero code.
C23_ExitZeroIffSuccess ==
    \A i \in Invs :
        Terminated(i) =>
            /\ inv[i].exitCode \in {0, 1}
            /\ inv[i].exitCode = 0 <=> Reported(i, "success")
            /\ (Reported(i, "blocked") \/ Reported(i, "failed")) => inv[i].exitCode # 0
            /\ (inv[i].threw \/ inv[i].stage = EmptyStage) => inv[i].exitCode # 0

C23_Witness ==
    /\ Terminated(1) /\ Reported(1, "success") /\ inv[1].exitCode = 0
    /\ Terminated(2) /\ inv[2].stage = EmptyStage /\ inv[2].exitCode = 1

\* C24: when S3 runs while the consolidated result of S2 is absent, the task
\* result is blocked, the stage ends blocked (never failed) and a run
\* manifest with that status is written.
C24_MissingDependencyBlocks ==
    \A i \in Invs :
        inv[i].depAbsent =>
            /\ inv[i].done["qa-agent"].status = "blocked"
            /\ Terminated(i) =>
                  /\ Reported(i, "blocked")
                  /\ inv[i].wrote # <<>>
                  /\ inv[i].wrote[Len(inv[i].wrote)].status = "blocked"
                  /\ inv[i].wrote[Len(inv[i].wrote)].stage = S3

C24_Witness ==
    /\ inv[1].stage = S3 /\ inv[1].depAbsent /\ Terminated(1)
    /\ Reported(1, "blocked")
    /\ outputs[S3].run = inv[1].wrote[1]
    /\ "coordinator-agent.json" \notin DOMAIN outputs[S2].files

\* C25: every result the driver returns with a status other than success
\* carries a non-empty reason, and every gate denial also carries the list
\* of the missing gates.
C25_NonSuccessHasReason ==
    \A i \in Invs :
        (Terminated(i) /\ inv[i].returned # NotCalled /\ ~Reported(i, "success")) =>
            /\ "reason" \in DOMAIN inv[i].returned
            /\ inv[i].returned.reason # <<>>
            /\ GateDenied(i) =>
                  /\ "missing_gates" \in DOMAIN inv[i].returned
                  /\ inv[i].returned.missing_gates # <<>>

-----------------------------------------------------------------------------
(* Claims about the denial data of the gate engine (checked under SpecGate) *)

\* the flags the policy requires for a stage of the family that was denied
RequiredFlags(family) ==
    IF family = "presales" THEN {"contract_signed"}
    ELSE IF family = "delivery" THEN {"payment_verified"}
    ELSE IF family = "production"
    THEN {"payment_verified", "dns_verified", "ssl_verified"}
    ELSE {}

\* C26: whenever gate evaluation denies a stage, the missing-gate list is
\* exactly the set of flags required for the stage's family that are not
\* true in the gate state, each listed once.
C26_MissingListExact ==
    (GateCalled /\ ~ret.passed) =>
        /\ Range(ret.missing) =
              {k \in RequiredFlags(ret.family) : ~Truthy(ret.gates_state, k)}
        /\ Len(ret.missing) = Cardinality(Range(ret.missing))
        /\ ret.gates_state = loadGates(arg.file, arg.reg)

C26_Witness ==
    /\ GateCalled /\ ~ret.passed
    /\ arg.toStage = DEPLOY
    /\ arg.file # NoFile
    /\ Truthy(arg.file, "dns_verified") /\ Truthy(arg.file, "contract_signed")
    /\ ret.missing = <<"payment_verified", "ssl_verified">>

\* the stage tokens that belong to no family
UnknownTokens ==
    {t \in GateStageTokens :
        LET n == normalizeStage(t)
        IN /\ n # <<>>
           /\ ~startsWith(n, <<"P", "S">>)
           /\ ~startsWith(n, <<"S">>)
           /\ n \notin ProductionTokens}

\* C27: a stage token of no known family is allowed for every gate state,
\* and no gate is listed as missing.
C27_UnknownFamilyAllowed ==
    (GateCalled /\ arg.toStage \in UnknownTokens) =>
        /\ ret.passed
        /\ ret.family = "unknown"
        /\ "missing" \in DOMAIN ret => ret.missing = <<>>

C27_Witness ==
    /\ GateCalled /\ arg.toStage = UNKNOWN
    /\ arg.file = NoFile /\ arg.reg.kind = "no_registry"
    /\ ret.gates_state = BlockedDefaults
    /\ ret.passed

-----------------------------------------------------------------------------
(* Claims about the action items of the Consolidator (checked under SpecCoord) *)

\* the Consolidator has aggregated the sibling results
CoordAggregated == CoordCalled /\ "action_items" \in DOMAIN ret.result.consolidated

\* the group an action item belongs to, by its source
ItemRank(item) ==
    IF item.source = "coordinator" THEN 1
    ELSE IF item.source = "coordinator-conflict-detection" THEN 2
    ELSE 3

\* the number an action-item identifier ends with
ItemNumber(item) == item.id[3][1] * 100 + item.id[3][2] * 10 + item.id[3][3]

\* the declared deliverable files that are not in the directory, with the
\* sibling result file that declares each
MissingDeclared(files) ==
    {<<f, d>> \in SiblingFiles \X Range(FileOrder) :
        /\ Readable(files, f)
        /\ d \in files[f].result.deliverables
        /\ d \notin DOMAIN files}

\* C28: action items are emitted in the order missing deliverables, then
\* conflicts, then critical issues; their identifiers are numbered
\* consecutively from 1 within the stage; consolidating the same sibling
\* results again yields the same identifiers and the same status.
C28_ActionItemOrder ==
    CoordAggregated =>
        LET items == ret.result.consolidated.action_items
            again == executeCoordinatorLogic(arg.files, arg.stage, CoordinatorContext)
        IN /\ \A k \in 1..Len(items) :
                 /\ items[k].id[1] = arg.stage
                 /\ \A n \in 1..3 : items[k].id[3][n] \in 0..9
                 /\ ItemNumber(items[k]) = k
           /\ \A j, k \in 1..Len(items) : j < k => ItemRank(items[j]) <= ItemRank(items[k])
           /\ Cardinality({k \in 1..Len(items) : ItemRank(items[k]) = 1})
                 = Cardinality(MissingDeclared(arg.files))
           /\ Cardinality({k \in 1..Len(items) : ItemRank(items[k]) = 2})
                 = ret.result.consolidated.conflicts
           /\ \A k \in 1..Len(items) :
                 ItemRank(items[k]) = 3 => items[k].severity = "critical"
           /\ again.status = ret.status
           /\ [k \in 1..Len(items) |-> items[k].id]
                 = [k \in 1..Len(again.result.consolidated.action_items) |->
                      again.result.consolidated.action_items[k].id]

C28_Witness ==
    /\ CoordAggregated
    /\ Len(ret.result.consolidated.action_items) = 4
    /\ [k \in 1..4 |-> ItemRank(ret.result.consolidated.action_items[k])] = <<1, 1, 2, 3>>
    /\ ret.result.consolidated.action_items[4].id = <<S2, "AI", <<0, 0, 4>>>>
    /\ ret.result.consolidated.action_items[4].owner = "backend-agent"

\* C29: three sibling results of which exactly one declares a deliverable
\* file that was never written, with no conflict and no critical issue: the
\* status is blocked and there is exactly one action item, whose source is
\* "missing artifact" and whose owner is the task that declared the file.
C29_OneMissingArtifactItem ==
    (/\ CoordCalled
     /\ UnreadableSiblings(arg.files) = {}
     /\ Cardinality(MissingDeclared(arg.files)) = 1
     /\ ~AnyCriticalIssue(arg.files)
     /\ ~("api-spec.md" \in DOMAIN arg.files /\ arg.files["api-spec.md"] = BadEndpoints))
        => LET items == ret.result.consolidated.action_items
               declared == CHOOSE m \in MissingDeclared(arg.files) : TRUE
           IN /\ ret.status = "blocked"
              /\ Len(items) = 1
              /\ items[1].owner = AgentOf(declared[1])
              /\ items[1].source = "missing artifact"

-----------------------------------------------------------------------------
(* Claims about the metered-call client (checked under SpecRetry) *)

RetryCalled == arg.fn = "retry"

\* C30: when an attempt of a metered call fails with a caller-side (4xx)
\* error, that attempt is the last one, no backoff delay follows it and the
\* error is raised to the caller at once.
C30_ClientErrorNotRetried ==
    RetryCalled =>
        \A k \in 1..Len(exec.errors) :
            ("status" \in DOMAIN exec.errors[k] /\ exec.errors[k].status \in 400..499) =>
                /\ k = Len(exec.errors)
                /\ exec.calls = k
                /\ Len(exec.slept) = k - 1
                /\ exec.pc = "done"
                /\ ret = [thrown |-> exec.errors[k]]

C30_Witness ==
    /\ RetryCalled
    /\ arg.retries = [n |-> 3]
    /\ exec.errors = <<[status |-> 500], [status |-> 429]>>
    /\ exec.slept = <<1000>>
    /\ exec.calls = 2
    /\ ret = [thrown |-> [status |-> 429]]

\* the number of attempts the retry policy allows: the count passed by the
\* caller, 3 when none is passed
AttemptBound == IF arg.retries = Null THEN 3 ELSE arg.retries.n

\* C31: a metered call that fails with a transient or server-side error is
\* attempted again after a backoff delay that doubles each time (1s, 2s,
\* 4s), up to the bound on attempts (3 by default); once the bound is
\* reached the last error is raised and no further attempt is made.
C31_BoundedBackoff ==
    RetryCalled =>
        /\ exec.calls <= AttemptBound
        /\ \A k \in 1..Len(exec.slept) : exec.slept[k] = 1000 * 2^(k - 1)
        /\ (exec.pc = "done" /\ "thrown" \in DOMAIN ret) =>
              /\ exec.errors # <<>>
              /\ ret.thrown = exec.errors[Len(exec.errors)]
              /\ ~isClientError(ret.thrown) => exec.calls = AttemptBound

-----------------------------------------------------------------------------
(* Claims about the metered-call manager (checked under SpecLLM) *)

LLMCalled == arg.fn = "generateText"

\* the calls that gave a run id and whose cost has been tracked
TrackedRunCalls ==
    {c \in 1..MaxCalls : exec.calls[c].tracked # Null /\ exec.calls[c].options.runId}

RECURSIVE SumTracked(_)
SumTracked(calls) ==
    IF calls = {} THEN 0
    ELSE LET c == CHOOSE x \in calls : TRUE
         IN exec.calls[c].tracked.cost + SumTracked(calls \ {c})

\* C32: generateText checks the budgets before it calls the provider: when
\* the run's tracked cost plus the flat estimate exceeds the per-run budget
\* the call is rejected with a budget-exceeded error, the provider is not
\* called and no cost is recorded for the call.
C32_RunBudgetRejects ==
    LLMCalled =>
        /\ \A c \in 1..MaxCalls :
              (/\ exec.calls[c].pc # "idle"
               /\ exec.calls[c].options.runId
               /\ exec.calls[c].costsAtCheck.by_run + 5 > arg.budgets.per_run_usd)
                  => /\ exec.calls[c].pc = "rejected"
                     /\ "error" \in DOMAIN exec.calls[c].check
                     /\ exec.calls[c].check.error
                           \in {"Run budget exceeded", "Agent budget exceeded"}
                     /\ ~exec.calls[c].providerCalled
                     /\ exec.calls[c].tracked = Null
        /\ exec.costs.by_run = SumTracked(TrackedRunCalls)

C32_Witness ==
    /\ LLMCalled
    /\ arg.budgets = [per_run_usd |-> 10, per_client_day_usd |-> 500, per_agent_usd |-> 50]
    /\ exec.calls[1].pc = "done" /\ exec.calls[1].tracked = [cost |-> 6]
    /\ exec.calls[2].pc = "rejected"
    /\ exec.calls[2].check = [error |-> "Run budget exceeded"]
    /\ exec.calls[2].costsAtCheck.by_run = 6
    /\ exec.costs.by_run = 6

\* the largest cost tracked for one call of the run
MaxTracked ==
    IF TrackedRunCalls = {} THEN 0
    ELSE CHOOSE m \in {exec.calls[c].tracked.cost : c \in TrackedRunCalls} :
            \A c \in TrackedRunCalls : exec.calls[c].tracked.cost <= m

\* C40: for metered calls sharing one run id, the run's tracked cost never
\* exceeds the per-run budget by more than the cost of a single call, also
\* when several calls of the run are in flight at the same time.
C40_RunOvershootOneCall ==
    LLMCalled => exec.costs.by_run <= arg.budgets.per_run_usd + MaxTracked

-----------------------------------------------------------------------------
(* Claims about alert delivery (checked under SpecAlert) *)

DenialRan == arg.fn = "executeStage" /\ ret # NotCalled

\* C33: alert delivery can never fail the pipeline: the terminal status, the
\* written manifest and the exit code of a denied invocation are the same
\* whether the delivery succeeds, fails, times out or is not configured.
C33_AlertNeverFailsRun ==
    DenialRan =>
        /\ ret.returned # NotCalled
        /\ ret.returned.status = "blocked"
        /\ ret.returned.stage = arg.stage
        /\ ret.run = ret.returned
        /\ ret.exitCode = 1
        /\ ret.alert.sent <=> (arg.configured /\ arg.delivery = "ok")

C33_Witness ==
    /\ DenialRan
    /\ arg.configured /\ arg.delivery = "timeout"
    /\ arg.stage = DEPLOY
    /\ ~ret.alert.sent
    /\ ret.run.status = "blocked"
    /\ ret.run.missing_gates = <<"dns_verified", "ssl_verified">>
    /\ ret.exitCode = 1

-----------------------------------------------------------------------------
(* Claims about the files and manifests of a run (checked under Spec) *)

\* the files of the stage directory that lie in the namespace <taskName>.*:
\* of the names the executors write, only the two result files start with
\* the name of the task
NamespaceOf(a) == {a \o ".json", a \o ".md"}

\* C34: within one parallel group every file a task executor writes lies in
\* that executor's own namespace <client>/<stage>/<taskName>.*, so no file
\* is written by two different executors of the group.
C34_OwnNamespaceOnly ==
    \A i \in Invs :
        /\ \A a \in DOMAIN inv[i].writtenBy : inv[i].writtenBy[a] \subseteq NamespaceOf(a)
        /\ \A a, b \in DOMAIN inv[i].writtenBy :
              a # b => inv[i].writtenBy[a] \cap inv[i].writtenBy[b] = {}

-----------------------------------------------------------------------------
(* Claims about the conflicts and the inputs of the Consolidator *)

\* C35: whenever the client brief states a technology preference, the
\* consolidated result holds a medium-severity tech-preference conflict if
\* and only if that string does not appear, case-insensitively, in the
\* decisions of the frontend task.
C35_TechPreferenceConflict ==
    (CoordAggregated /\ arg.tech_preferences # <<>>) =>
        LET conflicts == ret.result.consolidated.conflicts_detail
            mentioned == Mentions(arg.files["frontend-agent.json"].result.decisions,
                                  arg.tech_preferences[1])
        IN (\E k \in 1..Len(conflicts) :
               /\ conflicts[k].type = "tech_stack_mismatch"
               /\ conflicts[k].severity = "medium")
           <=> ~mentioned

\* the sibling results the Consolidator asked for and could not read
RequiredMissing ==
    UNION {Range(ret.coordinator.result.issues[k].missing_inputs) :
              k \in {n \in 1..Len(ret.coordinator.result.issues) :
                        "missing_inputs" \in DOMAIN ret.coordinator.result.issues[n]}}

\* the tasks whose results the Consolidator has aggregated
ConsumedTasks ==
    IF "all_deliverables" \in DOMAIN ret.coordinator.result.consolidated
    THEN {ret.coordinator.result.consolidated.all_deliverables[k].agent :
             k \in 1..Len(ret.coordinator.result.consolidated.all_deliverables)}
    ELSE {}

\* C36: the sibling inputs of the Consolidator are exactly the results just
\* produced by the members of the current group: it requires no result of
\* a task that did not run in the group and consumes no result file left
\* by an earlier invocation.
C36_InputsAreGroupResults ==
    (GroupCalled /\ ~arg.coordinatorFails) =>
        /\ RequiredMissing \subseteq {a \o ".json" : a \in arg.members}
        /\ ConsumedTasks \subseteq arg.members

\* C39: if the Consolidator pass itself fails with an error, the stage does
\* not end with status success on the strength of the task results alone:
\* the failure shows in the terminal status and in the manifest.
C39_ConsolidatorErrorNotSuccess ==
    (GroupCalled /\ arg.coordinatorFails) =>
        /\ ret.returned.status # "success"
        /\ ret.manifest.status # "success"
        /\ ret.exitCode # 0

\* C37: every invocation that returns a terminal status to the command
\* line, the one that finds no task executor for its stage included, has
\* written a run manifest whose status is the returned status.
C37_ManifestForEveryResult ==
    \A i \in Invs :
        (Terminated(i) /\ inv[i].returned # NotCalled) =>
            /\ inv[i].wrote # <<>>
            /\ inv[i].wrote[Len(inv[i].wrote)].status = inv[i].returned.status

====
